---------------------------- MODULE Spec2Model ----------------------------
(***************************************************************************)
(* A model of the agent layer of ai-town (JamAI Base edition):             *)
(*   - the game inputs of convex/aiTown/agentInputs.ts (operation fence),  *)
(*   - the JamAI Base wrappers of convex/aiTown/JamAIBaseAPi.ts,           *)
(*   - the conversation functions of convex/agent/conversation.ts.         *)
(* The three files are concatenated in src/convex/aiTown/agentInputs.ts.   *)
(*                                                                         *)
(* game.world.agents, .players and .conversations are Maps; they are       *)
(* modelled as functions whose DOMAIN is the set of keys present.  Ids are *)
(* allocated in order, so the maps are sequences.                          *)
(***************************************************************************)
EXTENDS Integers, Sequences, FiniteSets, Bags, TLC

(***************************************************************************)
(* Bounds of the model.                                                    *)
(***************************************************************************)
MaxOperations == 2
MaxConversations == 1

(***************************************************************************)
(* data/characters.ts: the descriptions createAgent indexes.               *)
(***************************************************************************)
Descriptions ==
  << [name |-> "Alice", identity |-> "Alice's identity"],
     [name |-> "Bob", identity |-> "Bob's identity"] >>

\* convex/init.ts registers one agent per description.
MaxAgents == Len(Descriptions)

OperationNames == {"agentRememberConversation", "agentDoSomething", "agentGenerateMessage"}

\* An absent optional field (undefined).
NoOperation == [name |-> "undefined", operationId |-> 0]
Undefined == 0
NoActivity == "undefined"

VARIABLES
  agents,            \* game.world.agents: agentId -> Agent
  players,           \* game.world.players: playerId -> Player
  conversations,     \* game.world.conversations: conversationId -> Conversation
  nextOperation,     \* the next operation id game.allocId('operations') mints
  lastBegun,         \* history: per agent, the operation id it began last (0: none)
  returnValue,       \* the outcome of the last input handler: returned or threw
  lastInput,         \* the input handled last: its name, its arguments, the fence's verdict
  chain,             \* per createAgent call, the position of its provisioning chain
  tables,            \* JamAI Base: table id -> table, for the tables that exist
  apiReturn,         \* what the last JamAIBaseAPi wrapper gave its caller
  lastCall,          \* the JamAIBaseAPi wrapper called last, with its arguments
  conversation,      \* the conversation the conversation functions are called for
  calls,             \* per agent, the conversation function it runs, its position, and
                     \* history: the transcripts it listed, uploaded, asked to be copied
  round,             \* the number of conversations begun
  uploads,           \* history: the documents the knowledge tables took, this conversation
  deleted,           \* history: the transcripts the service deleted, this conversation
  reachable,         \* JamAI Base: a request sent now reaches the service
  messages,          \* the messages table: the messages of one conversation, in order
  prompt             \* what the last call of previousMessages returned

worldVars == <<agents, players, conversations>>
fenceVars == <<agents, players, conversations, nextOperation, lastBegun, returnValue,
               lastInput, chain>>
apiVars == <<tables, apiReturn, lastCall, reachable>>
convVars == <<conversation, calls, round, uploads, deleted>>
promptVars == <<messages, prompt>>
vars == <<agents, players, conversations, nextOperation, lastBegun, returnValue,
          lastInput, chain, tables, apiReturn, lastCall, conversation, calls, round,
          uploads, deleted, reachable, messages, prompt>>

Ok == [kind |-> "ok"]
Error == [kind |-> "error"]

Input(name, agentId, operationId, conversationId, accepted) ==
  [name |-> name, agentId |-> agentId, operationId |-> operationId,
   conversationId |-> conversationId, accepted |-> accepted]
NoInput == Input("none", 0, 0, 0, FALSE)

Call(name, args) == [name |-> name, args |-> args]
NoCall == Call("none", << >>)

\* Conversation.stop: the conversation leaves the world, archived; its
\* participants are still to remember it.
Ended(c) == [c EXCEPT !.phase = "ended", !.numMessages = 0]

\* No conversation is under way.
NoConversation == [phase |-> "none", creator |-> 0, invitee |-> 0, numMessages |-> 0]

(***************************************************************************)
(* Collaborators of the inputs whose code is outside src/.                 *)
(***************************************************************************)
\* Player.join: registers a player and returns its id.
PlayerJoin(ps, name) ==
  Append(ps, [name |-> name, human |-> FALSE, activity |-> NoActivity,
              pathfinding |-> Undefined])

\* Conversation.start(game, now, player, invitee): a new conversation of the two.
ConversationStart(cs, now, playerId, inviteeId) ==
  Append(cs, [participants |-> {playerId, inviteeId}, created |-> now,
              numMessages |-> 0, state |-> "invited"])

\* movePlayer(game, now, player, destination)
movePlayer(ps, playerId, destination) ==
  [ps EXCEPT ![playerId].pathfinding = destination]

\* conversationInputs.finishSendingMessage.handler
finishSendingMessage(cs, conversationId) ==
  [cs EXCEPT ![conversationId].numMessages = @ + 1]

\* conversation.leave(game, now, player): the conversation ends for both sides
ConversationLeave(cs, conversationId) ==
  [cs EXCEPT ![conversationId].state = "ended"]

\* ... and both participants' agents are marked to remember it.
MarkToRemember(ags, cs, conversationId) ==
  [a \in DOMAIN ags |->
     IF ags[a].playerId \in cs[conversationId].participants
       THEN [ags[a] EXCEPT !.toRemember = conversationId]
       ELSE ags[a]]

\* Agent.startOperation: mints a token and stores it as the operation in progress;
\* an operation still in progress is superseded.
startOperation(agentId, name) ==
  /\ agentId \in DOMAIN agents
  /\ nextOperation <= MaxOperations
  /\ agents' = [agents EXCEPT ![agentId].inProgressOperation =
                   [name |-> name, operationId |-> nextOperation]]
  /\ nextOperation' = nextOperation + 1
  /\ lastBegun' = [lastBegun EXCEPT ![agentId] = nextOperation]
  /\ lastInput' = NoInput
  /\ UNCHANGED <<players, conversations, returnValue, chain>>

(***************************************************************************)
(* agentInputs                                                             *)
(***************************************************************************)
\* The fence test of the three completion handlers.
NotInProgressAnyToken(agent, operationId) ==
  agent.inProgressOperation = NoOperation

NotInProgress(agent, operationId) ==
  \/ agent.inProgressOperation = NoOperation
  \/ agent.inProgressOperation.operationId # operationId

\* delete agent.inProgressOperation
ClearOperationSkipped(ags, agentId) == ags

\* ... had the marker gone with the operation.
ClearOperationAndMarker(ags, agentId) ==
  [ags EXCEPT ![agentId].inProgressOperation = NoOperation,
              ![agentId].toRemember = Undefined]

ClearOperation(ags, agentId) ==
  [ags EXCEPT ![agentId].inProgressOperation = NoOperation]

finishRememberConversationForgetting(operationId, agentId) ==
  /\ UNCHANGED <<players, conversations, nextOperation, lastBegun, chain>>
  /\ IF agentId \notin DOMAIN agents
       THEN /\ returnValue' = Error
            /\ lastInput' = Input("finishRememberConversation", agentId, operationId, 0, FALSE)
            /\ UNCHANGED agents
       ELSE /\ returnValue' = Ok
            /\ IF NotInProgress(agents[agentId], operationId)
                 THEN /\ lastInput' = Input("finishRememberConversation", agentId, operationId, 0, FALSE)
                      /\ agents' = [agents EXCEPT ![agentId].toRemember = Undefined]
                 ELSE /\ lastInput' = Input("finishRememberConversation", agentId, operationId, 0, TRUE)
                      /\ agents' = [ClearOperation(agents, agentId) EXCEPT
                                      ![agentId].toRemember = Undefined]

finishRememberConversationThrowing(operationId, agentId) ==
  /\ UNCHANGED <<players, conversations, nextOperation, lastBegun, chain>>
  /\ IF agentId \notin DOMAIN agents
       THEN /\ returnValue' = Error
            /\ lastInput' = Input("finishRememberConversation", agentId, operationId, 0, FALSE)
            /\ UNCHANGED agents
       ELSE IF NotInProgress(agents[agentId], operationId)
              THEN /\ returnValue' = Error
                   /\ lastInput' = Input("finishRememberConversation", agentId, operationId, 0, FALSE)
                   /\ UNCHANGED agents
              ELSE /\ returnValue' = Ok
                   /\ lastInput' = Input("finishRememberConversation", agentId, operationId, 0, TRUE)
                   /\ agents' = [ClearOperation(agents, agentId) EXCEPT
                                   ![agentId].toRemember = Undefined]

finishRememberConversationLenient(operationId, agentId) ==
  /\ UNCHANGED <<players, conversations, nextOperation, lastBegun, chain>>
  /\ IF agentId \notin DOMAIN agents
       THEN /\ returnValue' = Ok
            /\ lastInput' = Input("finishRememberConversation", agentId, operationId, 0, FALSE)
            /\ UNCHANGED agents
       ELSE /\ returnValue' = Ok
            /\ IF NotInProgress(agents[agentId], operationId)
                 THEN /\ lastInput' = Input("finishRememberConversation", agentId, operationId, 0, FALSE)
                      /\ UNCHANGED agents
                 ELSE /\ lastInput' = Input("finishRememberConversation", agentId, operationId, 0, TRUE)
                      /\ agents' = [ClearOperation(agents, agentId) EXCEPT
                                      ![agentId].toRemember = Undefined]

\* A fence that also asks for the kind of the operation in progress.
finishRememberConversationKindChecked(operationId, agentId) ==
  /\ UNCHANGED <<players, conversations, nextOperation, lastBegun, chain>>
  /\ IF agentId \notin DOMAIN agents
       THEN /\ returnValue' = Error
            /\ lastInput' = Input("finishRememberConversation", agentId, operationId, 0, FALSE)
            /\ UNCHANGED agents
       ELSE /\ returnValue' = Ok
            /\ IF \/ NotInProgress(agents[agentId], operationId)
                  \/ agents[agentId].inProgressOperation.name # "agentRememberConversation"
                 THEN /\ lastInput' = Input("finishRememberConversation", agentId, operationId, 0, FALSE)
                      /\ UNCHANGED agents
                 ELSE /\ lastInput' = Input("finishRememberConversation", agentId, operationId, 0, TRUE)
                      /\ agents' = [ClearOperation(agents, agentId) EXCEPT
                                      ![agentId].toRemember = Undefined]

finishRememberConversation(operationId, agentId) ==
  /\ UNCHANGED <<players, conversations, nextOperation, lastBegun, chain>>
  /\ IF agentId \notin DOMAIN agents
       THEN /\ returnValue' = Error
            /\ lastInput' = Input("finishRememberConversation", agentId, operationId, 0, FALSE)
            /\ UNCHANGED agents
       ELSE /\ returnValue' = Ok
            /\ IF NotInProgress(agents[agentId], operationId)
                 THEN /\ lastInput' = Input("finishRememberConversation", agentId, operationId, 0, FALSE)
                      /\ UNCHANGED agents
                 ELSE /\ lastInput' = Input("finishRememberConversation", agentId, operationId, 0, TRUE)
                      /\ agents' = [ClearOperation(agents, agentId) EXCEPT
                                      ![agentId].toRemember = Undefined]

finishDoSomethingWithoutAttempt(now, operationId, agentId, destination, invitee, activity) ==
  /\ UNCHANGED <<nextOperation, lastBegun, chain>>
  /\ IF agentId \notin DOMAIN agents
       THEN /\ returnValue' = Error
            /\ lastInput' = Input("finishDoSomething", agentId, operationId, 0, FALSE)
            /\ UNCHANGED worldVars
       ELSE IF NotInProgress(agents[agentId], operationId)
         THEN /\ returnValue' = Ok
              /\ lastInput' = Input("finishDoSomething", agentId, operationId, 0, FALSE)
              /\ UNCHANGED worldVars
         ELSE
           LET cleared == ClearOperation(agents, agentId)
               playerId == agents[agentId].playerId
           IN /\ lastInput' = Input("finishDoSomething", agentId, operationId, 0, TRUE)
              /\ IF invitee # Undefined /\ invitee \notin DOMAIN players
                   THEN /\ returnValue' = Error
                        /\ agents' = cleared
                        /\ UNCHANGED <<players, conversations>>
                   ELSE
                     LET moved == IF destination # Undefined
                                    THEN movePlayer(players, playerId, destination)
                                    ELSE players
                     IN /\ returnValue' = Ok
                        /\ invitee # Undefined => Len(conversations) < MaxConversations
                        /\ conversations' =
                             IF invitee # Undefined
                               THEN ConversationStart(conversations, now, playerId, invitee)
                               ELSE conversations
                        /\ agents' =
                             IF invitee # Undefined
                               THEN cleared
                               ELSE cleared
                        /\ players' =
                             IF activity # NoActivity
                               THEN [moved EXCEPT ![playerId].activity = activity]
                               ELSE moved

\* The invitee looked up before the operation is cleared.
finishDoSomethingLookingUpFirst(now, operationId, agentId, destination, invitee, activity) ==
  /\ UNCHANGED <<nextOperation, lastBegun, chain>>
  /\ IF agentId \notin DOMAIN agents
       THEN /\ returnValue' = Error
            /\ lastInput' = Input("finishDoSomething", agentId, operationId, 0, FALSE)
            /\ UNCHANGED worldVars
       ELSE IF NotInProgress(agents[agentId], operationId)
         THEN /\ returnValue' = Ok
              /\ lastInput' = Input("finishDoSomething", agentId, operationId, 0, FALSE)
              /\ UNCHANGED worldVars
         ELSE
           LET cleared == ClearOperation(agents, agentId)
               playerId == agents[agentId].playerId
           IN /\ lastInput' = Input("finishDoSomething", agentId, operationId, 0, TRUE)
              /\ IF invitee # Undefined /\ invitee \notin DOMAIN players
                   THEN /\ returnValue' = Error
                        /\ agents' = agents
                        /\ UNCHANGED <<players, conversations>>
                   ELSE
                     LET moved == IF destination # Undefined
                                    THEN movePlayer(players, playerId, destination)
                                    ELSE players
                     IN /\ returnValue' = Ok
                        /\ invitee # Undefined => Len(conversations) < MaxConversations
                        /\ conversations' =
                             IF invitee # Undefined
                               THEN ConversationStart(conversations, now, playerId, invitee)
                               ELSE conversations
                        /\ agents' =
                             IF invitee # Undefined
                               THEN [cleared EXCEPT ![agentId].lastInviteAttempt = now]
                               ELSE cleared
                        /\ players' =
                             IF activity # NoActivity
                               THEN [moved EXCEPT ![playerId].activity = activity]
                               ELSE moved

finishDoSomething(now, operationId, agentId, destination, invitee, activity) ==
  /\ UNCHANGED <<nextOperation, lastBegun, chain>>
  /\ IF agentId \notin DOMAIN agents
       THEN /\ returnValue' = Error
            /\ lastInput' = Input("finishDoSomething", agentId, operationId, 0, FALSE)
            /\ UNCHANGED worldVars
       ELSE IF NotInProgress(agents[agentId], operationId)
         THEN /\ returnValue' = Ok
              /\ lastInput' = Input("finishDoSomething", agentId, operationId, 0, FALSE)
              /\ UNCHANGED worldVars
         ELSE
           LET cleared == ClearOperation(agents, agentId)
               playerId == agents[agentId].playerId
           IN /\ lastInput' = Input("finishDoSomething", agentId, operationId, 0, TRUE)
              /\ IF invitee # Undefined /\ invitee \notin DOMAIN players
                   THEN /\ returnValue' = Error
                        /\ agents' = cleared
                        /\ UNCHANGED <<players, conversations>>
                   ELSE
                     LET moved == IF destination # Undefined
                                    THEN movePlayer(players, playerId, destination)
                                    ELSE players
                     IN /\ returnValue' = Ok
                        /\ invitee # Undefined => Len(conversations) < MaxConversations
                        /\ conversations' =
                             IF invitee # Undefined
                               THEN ConversationStart(conversations, now, playerId, invitee)
                               ELSE conversations
                        /\ agents' =
                             IF invitee # Undefined
                               THEN [cleared EXCEPT ![agentId].lastInviteAttempt = now]
                               ELSE cleared
                        /\ players' =
                             IF activity # NoActivity
                               THEN [moved EXCEPT ![playerId].activity = activity]
                               ELSE moved

agentFinishSendingMessageUnsent(agentId, conversationId, timestamp, operationId, leaveConversation) ==
  /\ UNCHANGED <<players, nextOperation, lastBegun, chain>>
  /\ IF \/ agentId \notin DOMAIN agents
        \/ agents[agentId].playerId \notin DOMAIN players
        \/ conversationId \notin DOMAIN conversations
       THEN /\ returnValue' = Error
            /\ lastInput' = Input("agentFinishSendingMessage", agentId, operationId, conversationId, FALSE)
            /\ UNCHANGED <<agents, conversations>>
       ELSE IF NotInProgress(agents[agentId], operationId)
         THEN /\ returnValue' = Ok
              /\ lastInput' = Input("agentFinishSendingMessage", agentId, operationId, conversationId, FALSE)
              /\ UNCHANGED <<agents, conversations>>
         ELSE
           LET cleared == ClearOperation(agents, agentId)
               sent == finishSendingMessage(conversations, conversationId)
           IN /\ returnValue' = Ok
              /\ lastInput' = Input("agentFinishSendingMessage", agentId, operationId, conversationId, TRUE)
              /\ conversations' = IF leaveConversation
                                    THEN ConversationLeave(conversations, conversationId)
                                    ELSE sent
              /\ agents' = IF leaveConversation
                             THEN MarkToRemember(cleared, conversations, conversationId)
                             ELSE cleared

\* The handler, had it looked the conversation up among the open ones only.
agentFinishSendingMessageOpenOnly(agentId, conversationId, timestamp, operationId, leaveConversation) ==
  /\ UNCHANGED <<players, nextOperation, lastBegun, chain>>
  /\ IF \/ agentId \notin DOMAIN agents
        \/ agents[agentId].playerId \notin DOMAIN players
        \/ conversationId \notin DOMAIN conversations
        \/ conversations[conversationId].state = "ended"
       THEN /\ returnValue' = Error
            /\ lastInput' = Input("agentFinishSendingMessage", agentId, operationId, conversationId, FALSE)
            /\ UNCHANGED <<agents, conversations>>
       ELSE IF NotInProgress(agents[agentId], operationId)
         THEN /\ returnValue' = Ok
              /\ lastInput' = Input("agentFinishSendingMessage", agentId, operationId, conversationId, FALSE)
              /\ UNCHANGED <<agents, conversations>>
         ELSE
           LET cleared == ClearOperation(agents, agentId)
               sent == finishSendingMessage(conversations, conversationId)
           IN /\ returnValue' = Ok
              /\ lastInput' = Input("agentFinishSendingMessage", agentId, operationId, conversationId, TRUE)
              /\ conversations' = IF leaveConversation
                                    THEN ConversationLeave(sent, conversationId)
                                    ELSE sent
              /\ agents' = IF leaveConversation
                             THEN MarkToRemember(cleared, conversations, conversationId)
                             ELSE cleared

agentFinishSendingMessage(agentId, conversationId, timestamp, operationId, leaveConversation) ==
  /\ UNCHANGED <<players, nextOperation, lastBegun, chain>>
  /\ IF \/ agentId \notin DOMAIN agents
        \/ agents[agentId].playerId \notin DOMAIN players
        \/ conversationId \notin DOMAIN conversations
       THEN /\ returnValue' = Error
            /\ lastInput' = Input("agentFinishSendingMessage", agentId, operationId, conversationId, FALSE)
            /\ UNCHANGED <<agents, conversations>>
       ELSE IF NotInProgress(agents[agentId], operationId)
         THEN /\ returnValue' = Ok
              /\ lastInput' = Input("agentFinishSendingMessage", agentId, operationId, conversationId, FALSE)
              /\ UNCHANGED <<agents, conversations>>
         ELSE
           LET cleared == ClearOperation(agents, agentId)
               sent == finishSendingMessage(conversations, conversationId)
           IN /\ returnValue' = Ok
              /\ lastInput' = Input("agentFinishSendingMessage", agentId, operationId, conversationId, TRUE)
              /\ conversations' = IF leaveConversation
                                    THEN ConversationLeave(sent, conversationId)
                                    ELSE sent
              /\ agents' = IF leaveConversation
                             THEN MarkToRemember(cleared, conversations, conversationId)
                             ELSE cleared

\* new Agent({...}) of createAgent.
NewAgent(playerId, description) ==
  [playerId |-> playerId,
   inProgressOperation |-> NoOperation,
   lastConversation |-> Undefined,
   lastInviteAttempt |-> Undefined,
   toRemember |-> Undefined,
   knowledgeTableId |-> <<"knowledge_Ai-Town-", description.name>>,
   chatTableId |-> <<"Chat_Ai-Town-", description.name>>,
   conversationList |-> << >>]

createAgentHoldingOperation(descriptionIndex) ==
  LET description == Descriptions[descriptionIndex]
      playerId == Len(players) + 1
      agentId == Len(agents) + 1
  IN /\ Len(agents) < MaxAgents
     /\ players' = PlayerJoin(players, description.name)
     /\ chain' = Append(chain, [name |-> description.name, pc |-> "createAgentKnowledgeTable",
                              issued |-> << >>])
     /\ agents' = Append(agents,
          [NewAgent(playerId, description) EXCEPT
             !.inProgressOperation = [name |-> "agentDoSomething", operationId |-> 0]])
     /\ lastBegun' = Append(lastBegun, 0)
     /\ returnValue' = Ok
     /\ lastInput' = Input("createAgent", 0, 0, 0, FALSE)
     /\ UNCHANGED <<conversations, nextOperation>>

createAgent(descriptionIndex) ==
  LET description == Descriptions[descriptionIndex]
      playerId == Len(players) + 1
      agentId == Len(agents) + 1
  IN /\ Len(agents) < MaxAgents
     /\ players' = PlayerJoin(players, description.name)
     /\ chain' = Append(chain, [name |-> description.name, pc |-> "createAgentKnowledgeTable",
                              issued |-> << >>])
     /\ agents' = Append(agents, NewAgent(playerId, description))
     /\ lastBegun' = Append(lastBegun, 0)
     /\ returnValue' = Ok
     /\ lastInput' = Input("createAgent", 0, 0, 0, FALSE)
     /\ UNCHANGED <<conversations, nextOperation>>

(***************************************************************************)
(* The game engine: convex/init.ts registers the descriptions in order;    *)
(* completions arrive in any order, with any arguments, and carry a token  *)
(* that has been minted; an agent does not invite its own player.          *)
(***************************************************************************)
AgentIds == 1 .. MaxAgents
PlayerIds == 1 .. MaxAgents
ConversationIds == 1 .. MaxConversations
OperationIds == 1 .. MaxOperations
\* The engine's clock at the step, handed to every handler as `now`.
Now == 1
Times == {Now}
Destinations == {Undefined, 1}
Activities == {NoActivity, "reading"}
Invitees == PlayerIds \cup {Undefined}
Minted == 1 .. (nextOperation - 1)

InitFence ==
  /\ reachable = TRUE
  /\ agents = << >>
  /\ players = << >>
  /\ conversations = << >>
  /\ nextOperation = 1
  /\ lastBegun = << >>
  /\ returnValue = Ok
  /\ lastInput = NoInput
  /\ chain = << >>
  /\ tables = << >>
  /\ apiReturn = "undefined"
  /\ lastCall = NoCall
  /\ conversation = NoConversation
  /\ calls = << >>
  /\ round = 0
  /\ uploads = EmptyBag
  /\ deleted = EmptyBag
  /\ messages = << >>
  /\ prompt = << >>

NextFence ==
  \/ \E i \in DOMAIN Descriptions :
       i = Len(agents) + 1 /\ createAgent(i) /\ UNCHANGED <<apiVars, convVars, promptVars>>
  \/ \E a \in AgentIds, n \in OperationNames :
       startOperation(a, n) /\ UNCHANGED <<apiVars, convVars, promptVars>>
  \/ \E o \in Minted, a \in AgentIds :
       finishRememberConversation(o, a) /\ UNCHANGED <<apiVars, convVars, promptVars>>
  \/ \E now \in Times, o \in Minted, a \in AgentIds, d \in Destinations,
        i \in Invitees, act \in Activities :
       /\ a \in DOMAIN agents => i # agents[a].playerId
       /\ finishDoSomething(now, o, a, d, i, act)
       /\ UNCHANGED <<apiVars, convVars, promptVars>>
  \/ \E a \in AgentIds, c \in ConversationIds, t \in Times, o \in Minted,
        l \in BOOLEAN :
       agentFinishSendingMessage(a, c, t, o, l) /\ UNCHANGED <<apiVars, convVars, promptVars>>

SpecFence == InitFence /\ [][NextFence]_vars

(***************************************************************************)
(* The operation fence.                                                    *)
(***************************************************************************)
InProgress(a) == agents[a].inProgressOperation

CompletionNames ==
  {"finishRememberConversation", "finishDoSomething", "agentFinishSendingMessage"}

\* The completion is stale: the agent has no operation in progress, or another one.
Stale(a, o) ==
  /\ a \in DOMAIN agents
  /\ \/ InProgress(a) = NoOperation
     \/ InProgress(a).operationId # o

Matching(a, o) ==
  /\ a \in DOMAIN agents
  /\ InProgress(a) # NoOperation
  /\ InProgress(a).operationId = o

\* The records agentFinishSendingMessage looks up before it consults the fence.
Referenced(i) ==
  i.name = "agentFinishSendingMessage" =>
    /\ agents[i.agentId].playerId \in DOMAIN players
    /\ i.conversationId \in DOMAIN conversations

\* C1: every agent holds at most one operation in progress: none, or the one
\* it began last; an agent createAgent has just registered holds none.
AtMostOneInProgressOperation ==
  \A a \in DOMAIN agents :
    \/ InProgress(a) = NoOperation
    \/ /\ InProgress(a).name \in OperationNames
       /\ lastBegun[a] # 0
       /\ InProgress(a).operationId = lastBegun[a]

OperationsBegunAndCompleted ==
  /\ Len(agents) = MaxAgents
  /\ lastInput.name \in CompletionNames
  /\ \E a \in DOMAIN agents : lastBegun[a] # 0 /\ InProgress(a) = NoOperation
  /\ \E a \in DOMAIN agents : InProgress(a) # NoOperation

\* C2: a completion whose token does not match the agent's operation in
\* progress (or that finds none in progress) changes neither the agents, nor
\* the players, nor the conversations.
StaleCompletionChangesNothing ==
  [][LET i == lastInput'
     IN i.name \in CompletionNames /\ Stale(i.agentId, i.operationId)
          => UNCHANGED worldVars]_vars

StaleCompletionSeen ==
  /\ lastInput.name = "finishRememberConversation"
  /\ ~lastInput.accepted
  /\ returnValue = Ok
  /\ lastInput.agentId \in DOMAIN agents
  /\ agents[lastInput.agentId].toRemember # Undefined

\* C3 (as stated): in every world state in which the agent exists, a completion
\* carrying the token of the agent's operation in progress clears it.
MatchingCompletionClearsAlways ==
  [][LET i == lastInput'
     IN i.name \in CompletionNames /\ Matching(i.agentId, i.operationId)
          => agents'[i.agentId].inProgressOperation = NoOperation]_vars

\* C3 (amended): a completion carrying the token of the agent's operation in
\* progress is accepted and clears it; for agentFinishSendingMessage, provided
\* the agent's player and the conversation it names are in the world.
MatchingCompletionClears ==
  [][LET i == lastInput'
     IN (/\ i.name \in CompletionNames
         /\ Matching(i.agentId, i.operationId)
         /\ Referenced(i))
          => i.accepted /\ agents'[i.agentId].inProgressOperation = NoOperation]_vars

MessageCompletionAccepted ==
  /\ lastInput.name = "agentFinishSendingMessage"
  /\ lastInput.accepted
  /\ returnValue = Ok
  /\ InProgress(lastInput.agentId) = NoOperation
  /\ conversations[lastInput.conversationId].numMessages > 0

\* C4: a completion that does not carry the token the agent began last is
\* rejected and changes nothing, so the operation begun last stays in progress;
\* the completion that carries it is the only one accepted, and it is accepted
\* when it arrives (agentFinishSendingMessage: when the records it names exist).
OnlyLatestOperationHonoured ==
  [][LET i == lastInput'
         a == i.agentId
     IN i.name \in CompletionNames /\ a \in DOMAIN agents =>
          /\ i.operationId # lastBegun[a]
               => ~i.accepted /\ UNCHANGED worldVars
          /\ i.accepted => i.operationId = lastBegun[a]
          /\ i.operationId = lastBegun[a] /\ InProgress(a) # NoOperation /\ Referenced(i)
               => i.accepted /\ agents'[a].inProgressOperation = NoOperation]_vars

SupersededCompletionRejected ==
  /\ lastInput = Input("finishDoSomething", 1, 1, 0, FALSE)
  /\ 1 \in DOMAIN agents
  /\ InProgress(1) = [name |-> "agentDoSomething", operationId |-> 2]

\* C5 (as stated): in every world state in which the agent exists, a stale
\* completion makes the handler return normally.
StaleCompletionNeverThrows ==
  [][LET i == lastInput'
     IN i.name \in CompletionNames /\ Stale(i.agentId, i.operationId)
          => returnValue' = Ok]_vars

\* C5 (amended): a stale completion makes the handler return normally; for
\* agentFinishSendingMessage, provided the agent's player and the conversation
\* it names are in the world.
StaleCompletionReturns ==
  [][LET i == lastInput'
     IN (/\ i.name \in CompletionNames
         /\ Stale(i.agentId, i.operationId)
         /\ Referenced(i))
          => returnValue' = Ok]_vars

StaleMessageCompletionReturned ==
  /\ lastInput.name = "agentFinishSendingMessage"
  /\ ~lastInput.accepted
  /\ returnValue = Ok
  /\ lastInput.agentId \in DOMAIN agents
  /\ InProgress(lastInput.agentId) # NoOperation


\* The step is finishDoSomething called with the token of the agent's
\* agentDoSomething in progress and with an invitee that is in the world.
InvitationCompletes(now, o, a, d, i, act) ==
  /\ Matching(a, o)
  /\ InProgress(a).name = "agentDoSomething"
  /\ i \in DOMAIN players
  /\ i # agents[a].playerId
  /\ finishDoSomething(now, o, a, d, i, act)

\* The conversation Conversation.start has added.
Started == conversations'[Len(conversations')]

NotFound(i) ==
  \/ i.agentId \notin DOMAIN agents
  \/ /\ i.name = "agentFinishSendingMessage"
     /\ \/ agents[i.agentId].playerId \notin DOMAIN players
        \/ i.conversationId \notin DOMAIN conversations

\* C18: a completion that names an agent that is not in the world (for
\* agentFinishSendingMessage also: a player or a conversation that is not)
\* makes the handler throw and changes neither the agents, nor the players,
\* nor the conversations.
NotFoundIsFatal ==
  [][LET i == lastInput'
     IN i.name \in CompletionNames /\ NotFound(i)
          => returnValue' = Error /\ UNCHANGED worldVars]_vars

\* A completion for an agent that createAgent has not registered has thrown.
AbsentAgentCompletionThrew ==
  /\ lastInput.name \in {"finishRememberConversation", "finishDoSomething"}
  /\ lastInput.agentId \notin DOMAIN agents
  /\ returnValue = Error
  /\ \E a \in DOMAIN agents : InProgress(a) # NoOperation


\* The agents of the conversation's participants.
AgentsIn(c) == {a \in DOMAIN agents : agents[a].playerId \in conversations[c].participants}

\* C22: an accepted agentFinishSendingMessage finalizes the message; with
\* leaveConversation it then ends the conversation, for both participants
\* (the finalized message is in the ended conversation, both agents are to
\* remember it); without it the conversation's state is as it was.
LeaveEndsAfterMessage ==
  [][LET i == lastInput'
         c == i.conversationId
     IN (i.name = "agentFinishSendingMessage" /\ i.accepted) =>
       \A t \in Times, l \in BOOLEAN :
         agentFinishSendingMessage(i.agentId, c, t, i.operationId, l)
         => /\ conversations'[c].numMessages = conversations[c].numMessages + 1
            /\ conversations'[c].participants = conversations[c].participants
            /\ l => /\ conversations'[c].state = "ended"
                    /\ \A a \in AgentsIn(c) : agents'[a].toRemember = c
            /\ ~l => conversations'[c].state = conversations[c].state]_vars

\* A leaving message has been accepted: the conversation is ended, with the
\* message in it, and the sender's operation is cleared.
LeavingMessageAccepted ==
  /\ lastInput.name = "agentFinishSendingMessage"
  /\ lastInput.accepted
  /\ conversations[lastInput.conversationId].state = "ended"
  /\ conversations[lastInput.conversationId].numMessages = 1
  /\ agents[lastInput.agentId].toRemember = lastInput.conversationId
  /\ InProgress(lastInput.agentId) = NoOperation


(***************************************************************************)
(* A conversation of the two agents under way, each with a message being   *)
(* generated: the completions arrive in any order, with any arguments.     *)
(***************************************************************************)
InitLeave ==
  /\ reachable = TRUE
  /\ players = PlayerJoin(PlayerJoin(<< >>, Descriptions[1].name), Descriptions[2].name)
  /\ agents = [a \in DOMAIN Descriptions |->
                 [NewAgent(a, Descriptions[a]) EXCEPT
                    !.inProgressOperation = [name |-> "agentGenerateMessage",
                                             operationId |-> a]]]
  /\ conversations = [c \in {1} |->
                        [ConversationStart(<< >>, Now, 1, 2)[1] EXCEPT
                           !.state = "participating"]]
  /\ nextOperation = Len(Descriptions) + 1
  /\ lastBegun = [a \in DOMAIN Descriptions |-> a]
  /\ returnValue = Ok
  /\ lastInput = NoInput
  /\ chain = << >>
  /\ tables = << >>
  /\ apiReturn = "undefined"
  /\ lastCall = NoCall
  /\ conversation = NoConversation
  /\ calls = << >>
  /\ round = 0
  /\ uploads = EmptyBag
  /\ deleted = EmptyBag
  /\ messages = << >>
  /\ prompt = << >>

NextLeave ==
  \/ \E a \in AgentIds, c \in ConversationIds, t \in Times, o \in Minted, l \in BOOLEAN :
       agentFinishSendingMessage(a, c, t, o, l) /\ UNCHANGED <<apiVars, convVars, promptVars>>
  \/ \E o \in Minted, a \in AgentIds :
       finishRememberConversation(o, a) /\ UNCHANGED <<apiVars, convVars, promptVars>>
  \/ \E t \in Times, o \in Minted, a \in AgentIds, d \in Destinations,
        i \in Invitees, act \in Activities :
       /\ a \in DOMAIN agents => i # agents[a].playerId
       /\ finishDoSomething(t, o, a, d, i, act)
       /\ UNCHANGED <<apiVars, convVars, promptVars>>

SpecLeave == InitLeave /\ [][NextLeave]_vars

MaxRows == 1

KnowledgeTableId(agentId) == <<"Knowledge_Ai-Town-", agentId>>
ChatTableId(agentName) == <<"Chat_Ai-Town-", agentName>>
NoTable == << >>

Table(type, parent, rag, rows, tokens) ==
  [type |-> type, parent |-> parent, rag |-> rag, rows |-> rows, tokens |-> tokens]

Response(svc) == [ok |-> TRUE, svc |-> svc]
Failure(svc) == [ok |-> FALSE, svc |-> svc]

Put(svc, id, table) == [k \in DOMAIN svc \cup {id} |-> IF k = id THEN table ELSE svc[k]]
Drop(svc, id) == [k \in DOMAIN svc \ {id} |-> svc[k]]

jamaiCreateKnowledgeTable(svc, id) ==
  IF ~reachable \/ id \in DOMAIN svc THEN Failure(svc)
  ELSE Response(Put(svc, id, Table("knowledge", NoTable, NoTable, 0, 0)))

jamaiCreateChatTable(svc, id) ==
  IF ~reachable \/ id \in DOMAIN svc THEN Failure(svc)
  ELSE Response(Put(svc, id, Table("chat", NoTable, NoTable, 0, 0)))

jamaiUpdateGenConfig(svc, id, ragTable) ==
  IF ~reachable \/ id \notin DOMAIN svc THEN Failure(svc)
  ELSE Response(Put(svc, id, [svc[id] EXCEPT !.rag = ragTable]))

\* include_data: the copy starts with the source's rows and configuration.
jamaiDuplicateTable(svc, src, dst) ==
  IF ~reachable \/ src \notin DOMAIN svc \/ dst \in DOMAIN svc THEN Failure(svc)
  ELSE Response(Put(svc, dst, [svc[src] EXCEPT !.parent = src]))

jamaiAddRow(svc, id) ==
  IF ~reachable \/ id \notin DOMAIN svc THEN Failure(svc)
  ELSE Response(Put(svc, id, [svc[id] EXCEPT !.rows = @ + 1]))

jamaiListRows(svc, id) ==
  IF ~reachable \/ id \notin DOMAIN svc THEN Failure(svc) ELSE Response(svc)

\* The file is embedded into the table; what a knowledge table holds is kept
\* as the history of the documents it took.
jamaiUploadFile(svc, id) ==
  IF ~reachable \/ id \notin DOMAIN svc THEN Failure(svc) ELSE Response(svc)

jamaiDeleteTable(svc, id) ==
  IF ~reachable \/ id \notin DOMAIN svc THEN Failure(svc) ELSE Response(Drop(svc, id))

(***************************************************************************)
(* JamAIBaseAPi.ts.  Every wrapper awaits one request inside try/catch: it *)
(* returns the response or nothing on success, and logs and returns        *)
(* nothing on failure.                                                     *)
(***************************************************************************)
Returned(r, value) == [svc |-> r.svc, returned |-> value]

createAgentChatTable(svc, agentName) ==
  LET r == jamaiCreateChatTable(svc, ChatTableId(agentName))
  IN IF r.ok THEN Returned(r, "response") ELSE Returned(r, "undefined")

configureAgentChatTable(svc, agentName) ==
  LET r == jamaiUpdateGenConfig(svc, ChatTableId(agentName), KnowledgeTableId(agentName))
  IN IF r.ok THEN Returned(r, "response") ELSE Returned(r, "undefined")

createAgentConversationTable(svc, agentChatTable, conversationId) ==
  LET r == jamaiDuplicateTable(svc, agentChatTable, conversationId)
  IN IF r.ok THEN Returned(r, "undefined") ELSE Returned(r, "undefined")

\* fetch resolves with whatever response the service gives, and rejects only
\* when the request does not reach it.
generateTextDuringInteraction(svc, conversationId) ==
  LET r == jamaiAddRow(svc, conversationId)
  IN IF r.ok \/ reachable THEN Returned(r, "response") ELSE Returned(r, "undefined")

createAgentKnowledgeTableUncaught(svc, agentId) ==
  LET r == jamaiCreateKnowledgeTable(svc, KnowledgeTableId(agentId))
  IN IF r.ok THEN Returned(r, "response") ELSE Returned(r, "throws")

createAgentKnowledgeTable(svc, agentId) ==
  LET r == jamaiCreateKnowledgeTable(svc, KnowledgeTableId(agentId))
  IN IF r.ok THEN Returned(r, "response") ELSE Returned(r, "undefined")

getChatTableRowsUncaught(svc, tableId) ==
  LET r == jamaiListRows(svc, tableId)
  IN IF r.ok THEN Returned(r, "response") ELSE Returned(r, "throws")

getChatTableRows(svc, tableId) ==
  LET r == jamaiListRows(svc, tableId)
  IN IF r.ok THEN Returned(r, "response") ELSE Returned(r, "undefined")

dumpMemoryIntoKnowledgeTable(svc, agentId) ==
  LET r == jamaiUploadFile(svc, KnowledgeTableId(agentId))
  IN IF r.ok THEN Returned(r, "undefined") ELSE Returned(r, "undefined")

deleteConversationTableUncaught(svc, conversationId) ==
  LET r == jamaiDeleteTable(svc, conversationId)
  IN IF r.ok THEN Returned(r, "response") ELSE Returned(r, "throws")

deleteConversationTable(svc, conversationId) ==
  LET r == jamaiDeleteTable(svc, conversationId)
  IN IF r.ok THEN Returned(r, "response") ELSE Returned(r, "undefined")

(***************************************************************************)
(* The wrappers under any sequence of calls, with the arguments the game   *)
(* passes: an agent's name, its chat template, a transcript `p-q` copied   *)
(* from the template of p.                                                 *)
(***************************************************************************)
AgentNames == {Descriptions[i].name : i \in DOMAIN Descriptions}
ConversationTableId(playerName, otherPlayerName) == <<playerName, "-", otherPlayerName>>
ConversationTableIds ==
  {t \in {ConversationTableId(p, q) : p \in AgentNames, q \in AgentNames} : t[1] # t[3]}
ChatTableIds == {ChatTableId(n) : n \in AgentNames} \cup ConversationTableIds

Called(r, name, args) ==
  /\ tables' = r.svc
  /\ apiReturn' = r.returned
  /\ lastCall' = Call(name, args)
  /\ UNCHANGED <<fenceVars, convVars, reachable, promptVars>>

\* The service becomes unreachable, or reachable again.
Outage ==
  /\ reachable' = ~reachable
  /\ UNCHANGED <<fenceVars, tables, apiReturn, lastCall, convVars, promptVars>>

InitApi == InitFence

NextApi ==
  \/ \E n \in AgentNames :
       Called(createAgentKnowledgeTable(tables, n), "createAgentKnowledgeTable", <<n>>)
  \/ \E n \in AgentNames :
       Called(createAgentChatTable(tables, n), "createAgentChatTable", <<n>>)
  \/ \E n \in AgentNames :
       Called(configureAgentChatTable(tables, n), "configureAgentChatTable", <<n>>)
  \/ \E p \in AgentNames : \E q \in AgentNames \ {p} :
       Called(createAgentConversationTable(tables, ChatTableId(p), ConversationTableId(p, q)),
              "createAgentConversationTable", <<ChatTableId(p), ConversationTableId(p, q)>>)
  \/ \E t \in ChatTableIds :
       /\ t \in DOMAIN tables => tables[t].rows < MaxRows
       /\ Called(generateTextDuringInteraction(tables, t),
                 "generateTextDuringInteraction", <<t>>)
  \/ \E t \in ConversationTableIds :
       Called(getChatTableRows(tables, t), "getChatTableRows", <<t>>)
  \/ \E n \in AgentNames :
       Called(dumpMemoryIntoKnowledgeTable(tables, n), "dumpMemoryIntoKnowledgeTable", <<n>>)
  \/ \E t \in ConversationTableIds :
       Called(deleteConversationTable(tables, t), "deleteConversationTable", <<t>>)
  \/ Outage

SpecApi == InitApi /\ [][NextApi]_vars

(***************************************************************************)
(* Provisioning is idempotent.                                             *)
(***************************************************************************)
CreationNames ==
  {"createAgentKnowledgeTable", "createAgentChatTable", "createAgentConversationTable"}

Again(svc, c) ==
  CASE c.name = "createAgentKnowledgeTable" -> createAgentKnowledgeTable(svc, c.args[1])
    [] c.name = "createAgentChatTable" -> createAgentChatTable(svc, c.args[1])
    [] c.name = "createAgentConversationTable" ->
         createAgentConversationTable(svc, c.args[1], c.args[2])

\* C10: a creation wrapper returns without an error, and calling it again
\* with the same arguments returns without an error and leaves the service
\* with the tables the first call left.
CreationIsIdempotent ==
  [][LET c == lastCall'
     IN c.name \in CreationNames /\ reachable' = reachable
          => /\ apiReturn' # "throws"
             /\ Again(tables', c).returned # "throws"
             /\ Again(tables', c).svc = tables']_vars

\* The transcript was copied, its template has grown since, and the copy was
\* asked for again.
TranscriptRequestedAgain ==
  /\ lastCall.name = "createAgentConversationTable"
  /\ lastCall.args[1] \in DOMAIN tables
  /\ lastCall.args[2] \in DOMAIN tables
  /\ tables[lastCall.args[2]].rows # tables[lastCall.args[1]].rows
  /\ apiReturn = "undefined"

(***************************************************************************)
(* Failures of the service stay inside the wrappers.                       *)
(***************************************************************************)
\* The request the wrapper of call c sends, as the service svc answers it.
RequestOf(svc, c) ==
  CASE c.name = "createAgentKnowledgeTable" ->
         jamaiCreateKnowledgeTable(svc, KnowledgeTableId(c.args[1]))
    [] c.name = "createAgentChatTable" -> jamaiCreateChatTable(svc, ChatTableId(c.args[1]))
    [] c.name = "configureAgentChatTable" ->
         jamaiUpdateGenConfig(svc, ChatTableId(c.args[1]), KnowledgeTableId(c.args[1]))
    [] c.name = "createAgentConversationTable" ->
         jamaiDuplicateTable(svc, c.args[1], c.args[2])
    [] c.name = "generateTextDuringInteraction" -> jamaiAddRow(svc, c.args[1])
    [] c.name = "getChatTableRows" -> jamaiListRows(svc, c.args[1])
    [] c.name = "dumpMemoryIntoKnowledgeTable" ->
         jamaiUploadFile(svc, KnowledgeTableId(c.args[1]))
    [] c.name = "deleteConversationTable" -> jamaiDeleteTable(svc, c.args[1])

WrapperNames ==
  {"createAgentKnowledgeTable", "createAgentChatTable", "configureAgentChatTable",
   "createAgentConversationTable", "generateTextDuringInteraction", "getChatTableRows",
   "dumpMemoryIntoKnowledgeTable", "deleteConversationTable"}

\* C17: whichever of the eight wrappers is called, when its request fails at
\* the service (unreachable, or the request refused) the wrapper returns to
\* its caller without an error, and the service is as it was.
FailureStaysInWrapper ==
  [][LET c == lastCall'
     IN (/\ c.name \in WrapperNames
         /\ reachable' = reachable
         /\ ~RequestOf(tables, c).ok)
          => apiReturn' # "throws" /\ tables' = tables]_vars

\* A transcript that exists was to be deleted while the service could not be
\* reached: the wrapper returned nothing and the transcript is still there.
DeletionFailed ==
  /\ lastCall.name = "deleteConversationTable"
  /\ lastCall.args[1] \in DOMAIN tables
  /\ ~reachable
  /\ apiReturn = "undefined"

(***************************************************************************)
(* agent/conversation.ts.  Each function first awaits queryPromptData and  *)
(* then one JamAI Base request after the other; a step below runs from one *)
(* await to the next.  The agent records queryPromptData hands out are     *)
(* handles on the world's records (an arena of entities passed by handle), *)
(* so a push or a tokenCount written by a function is a write to           *)
(* agents[a].conversationList.                                             *)
(***************************************************************************)
MaxRounds == 2
MaxMessages == 2
MaxTokens == 2

\* The human player of the town.
HumanName == "Me"

Idle ==
  [fn |-> "none", pc |-> "done", playerId |-> 0, otherPlayerId |-> 0, totalTokens |-> 0,
   found |-> {}, sent |-> {}, provisioned |-> {}, present |-> {}]

Running(fn, pc, playerId, otherPlayerId) ==
  [fn |-> fn, pc |-> pc, playerId |-> playerId, otherPlayerId |-> otherPlayerId,
   totalTokens |-> 0, found |-> {}, sent |-> {}, provisioned |-> {}, present |-> {}]

AgentOf(playerId) ==
  IF \E a \in DOMAIN agents : agents[a].playerId = playerId
    THEN CHOOSE a \in DOMAIN agents : agents[a].playerId = playerId
    ELSE Undefined

IdentityOf(agentId) == IF agentId = Undefined THEN "undefined" ELSE Descriptions[agentId].identity

queryPromptData(playerId, otherPlayerId) ==
  [player |-> players[playerId],
   otherPlayer |-> players[otherPlayerId],
   conversation |-> conversation,
   agent |-> AgentOf(playerId),
   otherAgent |-> AgentOf(otherPlayerId),
   otherIdentity |-> IdentityOf(AgentOf(otherPlayerId))]

UsageRecord(conversationId) == [conversationId |-> conversationId, tokenCount |-> 0]

\* conversationList.some(conv => conv.conversationId === conversationId)
Some(conversationList, conversationId) ==
  \E i \in DOMAIN conversationList : conversationList[i].conversationId = conversationId

\* conversationList.find(c => c.conversationId === conversationId): the place
\* of the first match, 0 for undefined.
Find(conversationList, conversationId) ==
  IF Some(conversationList, conversationId)
    THEN CHOOSE i \in DOMAIN conversationList :
           /\ conversationList[i].conversationId = conversationId
           /\ \A j \in 1 .. (i - 1) : conversationList[j].conversationId # conversationId
    ELSE 0

PushUnlessSome(conversationList, conversationId, record) ==
  IF Some(conversationList, conversationId) THEN conversationList
  ELSE Append(conversationList, record)

SetTokenCountAdding(conversationList, conversationId, tokenCount) ==
  LET i == Find(conversationList, conversationId)
  IN IF i = 0 THEN conversationList
     ELSE [conversationList EXCEPT ![i].tokenCount = @ + tokenCount]

SetTokenCount(conversationList, conversationId, tokenCount) ==
  LET i == Find(conversationList, conversationId)
  IN IF i = 0 THEN conversationList
     ELSE [conversationList EXCEPT ![i].tokenCount = tokenCount]

\* Lines 549-557, had the record gone to every agent's list.
TrackEveryAgent(ags, d) ==
  LET conv == UsageRecord(ConversationTableId(d.player.name, d.otherPlayer.name))
  IN [x \in DOMAIN ags |->
        [ags[x] EXCEPT !.conversationList = PushUnlessSome(@, conv.conversationId, conv)]]

\* startConversationMessage, lines 549-557.
TrackBoth(ags, d) ==
  LET conv == UsageRecord(ConversationTableId(d.player.name, d.otherPlayer.name))
      otherConversation == UsageRecord(ConversationTableId(d.otherPlayer.name, d.player.name))
      own == [ags EXCEPT ![d.agent].conversationList =
                PushUnlessSome(@, conv.conversationId, conv)]
  IN IF d.otherAgent = Undefined THEN own
     ELSE [own EXCEPT ![d.otherAgent].conversationList =
             PushUnlessSome(@, otherConversation.conversationId, conv)]

\* continueConversationMessage, lines 619-622.
TrackOwn(ags, d) ==
  LET conv == UsageRecord(ConversationTableId(d.player.name, d.otherPlayer.name))
  IN [ags EXCEPT ![d.agent].conversationList = PushUnlessSome(@, conv.conversationId, conv)]

At(a, fn, pc) == calls[a].fn = fn /\ calls[a].pc = pc
Goto(a, pc) == calls' = [calls EXCEPT ![a].pc = pc]
OfCall(a) == queryPromptData(calls[a].playerId, calls[a].otherPlayerId)

\* Lines 534-545: up to the second await, or to the chat completion when the
\* other player is human.
startConversationMessage(playerId, otherPlayerId) ==
  LET d == queryPromptData(playerId, otherPlayerId)
      id == ConversationTableId(d.player.name, d.otherPlayer.name)
      r == createAgentConversationTable(tables, agents[d.agent].chatTableId, id)
  IN /\ tables' = r.svc
     /\ IF d.otherPlayer.human
          THEN /\ agents' = TrackBoth(agents, d)
               /\ calls' = [calls EXCEPT ![d.agent] =
                    [Running("startConversationMessage", "chatCompletion",
                             playerId, otherPlayerId) EXCEPT !.provisioned = {id}]]
          ELSE /\ UNCHANGED agents
               /\ calls' = [calls EXCEPT ![d.agent] =
                    [Running("startConversationMessage", "createAgentConversationTable",
                             playerId, otherPlayerId) EXCEPT !.provisioned = {id}]]
     /\ UNCHANGED <<conversation, round, uploads, deleted>>

startConversationMessageOtherSkipped(a) ==
  LET d == OfCall(a)
  IN /\ At(a, "startConversationMessage", "createAgentConversationTable")
     /\ agents' = TrackBoth(agents, d)
     /\ Goto(a, "chatCompletion")
     /\ UNCHANGED <<tables, conversation, round, uploads, deleted>>

\* Lines 545-557: the other agent's transcript, then the usage records.
startConversationMessageOther(a) ==
  LET d == OfCall(a)
      id == ConversationTableId(d.otherPlayer.name, d.player.name)
      r == createAgentConversationTable(tables, agents[d.otherAgent].chatTableId, id)
  IN /\ At(a, "startConversationMessage", "createAgentConversationTable")
     /\ tables' = r.svc
     /\ agents' = TrackBoth(agents, d)
     /\ calls' = [calls EXCEPT ![a].pc = "chatCompletion", ![a].provisioned = @ \cup {id}]
     /\ UNCHANGED <<conversation, round, uploads, deleted>>

\* Lines 605-623.
continueConversationMessage(playerId, otherPlayerId) ==
  LET d == queryPromptData(playerId, otherPlayerId)
      r == createAgentConversationTable(tables, agents[d.agent].chatTableId,
             ConversationTableId(d.player.name, d.otherPlayer.name))
      lazily == d.otherPlayer.human /\ d.conversation.numMessages = 1
  IN /\ IF lazily
          THEN tables' = r.svc /\ agents' = TrackOwn(agents, d)
          ELSE UNCHANGED <<tables, agents>>
     /\ calls' = [calls EXCEPT ![d.agent] =
          [Running("continueConversationMessage", "chatCompletion", playerId, otherPlayerId)
             EXCEPT !.provisioned =
                      IF lazily THEN {ConversationTableId(d.player.name, d.otherPlayer.name)}
                      ELSE {}]]
     /\ UNCHANGED <<conversation, round, uploads, deleted>>

\* leaveConversationMessage, had it ended the conversation itself.
leaveConversationMessageEnding(playerId, otherPlayerId) ==
  LET d == queryPromptData(playerId, otherPlayerId)
  IN /\ calls' = [calls EXCEPT ![d.agent] =
          Running("leaveConversationMessage", "chatCompletion", playerId, otherPlayerId)]
     /\ conversation' = Ended(conversation)
     /\ UNCHANGED <<tables, agents, round, uploads, deleted>>

\* Lines 680-711.
leaveConversationMessage(playerId, otherPlayerId) ==
  LET d == queryPromptData(playerId, otherPlayerId)
  IN /\ calls' = [calls EXCEPT ![d.agent] =
          Running("leaveConversationMessage", "chatCompletion", playerId, otherPlayerId)]
     /\ UNCHANGED <<tables, agents, conversation, round, uploads, deleted>>

\* util/llm chatCompletion({..., conversationId}): a row is added to the
\* transcript, and the service reports the total it has counted for it so far.
chatCompletion(a, totalTokens) ==
  LET d == OfCall(a)
      id == ConversationTableId(d.player.name, d.otherPlayer.name)
      r == generateTextDuringInteraction(tables, id)
  IN /\ calls[a].fn \in {"startConversationMessage", "continueConversationMessage",
                         "leaveConversationMessage"}
     /\ calls[a].pc = "chatCompletion"
     /\ IF id \in DOMAIN tables
          THEN /\ totalTokens >= tables[id].tokens
               /\ tables' = Put(r.svc, id, [r.svc[id] EXCEPT !.tokens = totalTokens])
               /\ calls' = [calls EXCEPT ![a].pc = "updateTokens",
                                         ![a].totalTokens = totalTokens]
          ELSE /\ tables' = r.svc
               /\ calls' = [calls EXCEPT ![a] = Idle]
     /\ UNCHANGED <<agents, conversation, round, uploads, deleted>>

\* Lines 743-755.
\* The total kept on the acting agent's record alone.
updateTokensOwnOnly(playerId, otherPlayerId, totalTokens) ==
  LET d == queryPromptData(playerId, otherPlayerId)
      convo == ConversationTableId(d.player.name, d.otherPlayer.name)
      otherConvo == ConversationTableId(d.otherPlayer.name, d.player.name)
      own == [agents EXCEPT ![d.agent].conversationList =
                SetTokenCount(@, convo, totalTokens)]
  IN /\ agents' = own
     /\ Goto(d.agent, "sendMessage")
     /\ UNCHANGED <<tables, conversation, round, uploads, deleted>>

updateTokens(playerId, otherPlayerId, totalTokens) ==
  LET d == queryPromptData(playerId, otherPlayerId)
      convo == ConversationTableId(d.player.name, d.otherPlayer.name)
      otherConvo == ConversationTableId(d.otherPlayer.name, d.player.name)
      own == [agents EXCEPT ![d.agent].conversationList =
                SetTokenCount(@, convo, totalTokens)]
  IN /\ agents' = IF d.otherAgent = Undefined THEN own
                  ELSE [own EXCEPT ![d.otherAgent].conversationList =
                          SetTokenCount(@, otherConvo, totalTokens)]
     /\ Goto(d.agent, "sendMessage")
     /\ UNCHANGED <<tables, conversation, round, uploads, deleted>>

\* The operation writes the message and sends agentFinishSendingMessage; a
\* leaving message ends the conversation.
sendMessage(a) ==
  /\ calls[a].pc = "sendMessage"
  /\ conversation' =
       IF conversation.phase # "active" THEN conversation
       ELSE IF calls[a].fn = "leaveConversationMessage" THEN Ended(conversation)
       ELSE [conversation EXCEPT !.numMessages = @ + 1]
  /\ calls' = [calls EXCEPT ![a] = Idle]
  /\ UNCHANGED <<agents, tables, round, uploads, deleted>>

\* Lines 820-851: the document goes to the knowledge table of `player`; it
\* opens with otherPlayDesc when that is given.
dumpMemory(svc, responseBody, player, otherPlayer, otherPlayDesc) ==
  LET r == dumpMemoryIntoKnowledgeTable(svc, player)
  IN [svc |-> r.svc,
      returned |-> r.returned,
      taken |-> KnowledgeTableId(player) \in DOMAIN svc,
      document |-> [to |-> player, from |-> responseBody, first |-> otherPlayDesc]]

After(r, ifResponse, ifUndefined) ==
  CASE r.returned = "response" -> ifResponse
    [] r.returned = "undefined" -> ifUndefined
    [] r.returned = "throws" -> "threw"

\* Lines 787-798: the caller's transcript is listed.
dumpConversationTable(playerId, otherPlayerId) ==
  LET d == queryPromptData(playerId, otherPlayerId)
      id == ConversationTableId(d.player.name, d.otherPlayer.name)
      data == getChatTableRows(tables, id)
  IN /\ calls' = [calls EXCEPT ![d.agent] =
          [Running("dumpConversationTable", After(data, "dumpMemory", "getChatTableRows"),
                   playerId, otherPlayerId)
             EXCEPT !.found = IF data.returned = "response" THEN {id} ELSE {},
                    !.present = {t \in {id, ConversationTableId(d.otherPlayer.name,
                                                              d.player.name)} :
                                   t \in DOMAIN tables}]]
     /\ UNCHANGED <<agents, tables, conversation, round, uploads, deleted>>

\* Line 799.
dumpConversationTableMemory(a) ==
  LET d == OfCall(a)
      id == ConversationTableId(d.player.name, d.otherPlayer.name)
      r == dumpMemory(tables, id, d.player.name, d.otherPlayer.name, d.otherIdentity)
  IN /\ At(a, "dumpConversationTable", "dumpMemory")
     /\ tables' = r.svc
     /\ uploads' = IF r.taken THEN uploads (+) SetToBag({r.document}) ELSE uploads
     /\ calls' = [calls EXCEPT ![a].pc = After(r, "getChatTableRows", "getChatTableRows"),
                               ![a].sent = @ \cup {id}]
     /\ UNCHANGED <<agents, conversation, round, deleted>>

\* Lines 802-803: the other player's transcript is listed.
dumpConversationTableOther(a) ==
  LET d == OfCall(a)
      id == ConversationTableId(d.otherPlayer.name, d.player.name)
      otherData == getChatTableRows(tables, id)
  IN /\ At(a, "dumpConversationTable", "getChatTableRows")
     /\ calls' = [calls EXCEPT
          ![a].pc = After(otherData, "dumpOtherMemory", "deleteConversationTable"),
          ![a].found = IF otherData.returned = "response" THEN @ \cup {id} ELSE @]
     /\ UNCHANGED <<agents, tables, conversation, round, uploads, deleted>>

\* Line 804, had the other transcript's document gone to the caller's table.
dumpConversationTableOtherMemoryOwnStore(a) ==
  LET d == OfCall(a)
      id == ConversationTableId(d.otherPlayer.name, d.player.name)
      r == dumpMemory(tables, id, d.player.name, d.otherPlayer.name, d.otherIdentity)
  IN /\ At(a, "dumpConversationTable", "dumpOtherMemory")
     /\ tables' = r.svc
     /\ uploads' = IF r.taken THEN uploads (+) SetToBag({r.document}) ELSE uploads
     /\ calls' = [calls EXCEPT
          ![a].pc = After(r, "deleteConversationTable", "deleteConversationTable"),
          ![a].sent = @ \cup {id}]
     /\ UNCHANGED <<agents, conversation, round, deleted>>

\* Line 804.
dumpConversationTableOtherMemory(a) ==
  LET d == OfCall(a)
      id == ConversationTableId(d.otherPlayer.name, d.player.name)
      r == dumpMemory(tables, id, d.otherPlayer.name, d.player.name, d.otherIdentity)
  IN /\ At(a, "dumpConversationTable", "dumpOtherMemory")
     /\ tables' = r.svc
     /\ uploads' = IF r.taken THEN uploads (+) SetToBag({r.document}) ELSE uploads
     /\ calls' = [calls EXCEPT
          ![a].pc = After(r, "deleteConversationTable", "deleteConversationTable"),
          ![a].sent = @ \cup {id}]
     /\ UNCHANGED <<agents, conversation, round, deleted>>

\* Lines 806-810, had the counterpart's count been reset as well.
dumpConversationTableDeleteResettingBoth(a) ==
  LET d == OfCall(a)
      id == ConversationTableId(d.player.name, d.otherPlayer.name)
      otherId == ConversationTableId(d.otherPlayer.name, d.player.name)
      convo == Find(agents[a].conversationList, id)
      own == IF convo = 0 THEN agents
             ELSE [agents EXCEPT ![a].conversationList[convo].tokenCount = 0]
      r == deleteConversationTable(tables, id)
  IN /\ At(a, "dumpConversationTable", "deleteConversationTable")
     /\ agents' = IF d.otherAgent = Undefined THEN own
                  ELSE [own EXCEPT ![d.otherAgent].conversationList =
                          SetTokenCount(@, otherId, 0)]
     /\ tables' = r.svc
     /\ deleted' = IF r.svc # tables THEN deleted (+) SetToBag({id}) ELSE deleted
     /\ Goto(a, After(r, "done", "done"))
     /\ UNCHANGED <<conversation, round, uploads>>

\* Lines 806-810: the caller's count is reset and its transcript deleted.
dumpConversationTableDelete(a) ==
  LET d == OfCall(a)
      id == ConversationTableId(d.player.name, d.otherPlayer.name)
      convo == Find(agents[a].conversationList, id)
      r == deleteConversationTable(tables, id)
  IN /\ At(a, "dumpConversationTable", "deleteConversationTable")
     /\ agents' = IF convo = 0 THEN agents
                  ELSE [agents EXCEPT ![a].conversationList[convo].tokenCount = 0]
     /\ tables' = r.svc
     /\ deleted' = IF r.svc # tables THEN deleted (+) SetToBag({id}) ELSE deleted
     /\ Goto(a, After(r, "done", "done"))
     /\ UNCHANGED <<conversation, round, uploads>>

(***************************************************************************)
(* The town: the agents of the descriptions, provisioned as createAgent's  *)
(* chain provisions them, and one human player.  The engine runs one       *)
(* conversation after the other; in a conversation one agent generates at  *)
(* a time (the typing lock), a human types and leaves when it likes, and   *)
(* every agent of an ended conversation remembers it once, after its own   *)
(* generation has finished.                                                *)
(***************************************************************************)
Provisioned(svc, name) ==
  LET knowledge == createAgentKnowledgeTable(svc, name).svc
      chat == createAgentChatTable(knowledge, name).svc
      configured == configureAgentChatTable(chat, name).svc
  IN generateTextDuringInteraction(configured, ChatTableId(name)).svc

TownPlayerIds == 1 .. (MaxAgents + 1)
Participants == {conversation.creator, conversation.invitee}
Partner(playerId) == CHOOSE q \in Participants : q # playerId
Remembered(a) == At(a, "dumpConversationTable", "done") \/ At(a, "dumpConversationTable", "threw")

CanSpeak(a) ==
  /\ conversation.phase = "active"
  /\ agents[a].playerId \in Participants
  /\ \A b \in DOMAIN agents : calls[b].fn = "none"

InitConv ==
  /\ reachable = TRUE
  /\ players = Append([i \in DOMAIN Descriptions |->
                         PlayerJoin(<< >>, Descriptions[i].name)[1]],
                      [PlayerJoin(<< >>, HumanName)[1] EXCEPT !.human = TRUE])
  /\ agents = [i \in DOMAIN Descriptions |-> NewAgent(i, Descriptions[i])]
  /\ tables = Provisioned(Provisioned(<< >>, Descriptions[1].name), Descriptions[2].name)
  /\ conversations = << >>
  /\ nextOperation = 1
  /\ lastBegun = [i \in DOMAIN Descriptions |-> 0]
  /\ returnValue = Ok
  /\ lastInput = NoInput
  /\ chain = << >>
  /\ apiReturn = "undefined"
  /\ lastCall = NoCall
  /\ conversation = NoConversation
  /\ calls = [i \in DOMAIN Descriptions |-> Idle]
  /\ round = 0
  /\ uploads = EmptyBag
  /\ deleted = EmptyBag
  /\ messages = << >>
  /\ prompt = << >>

\* Conversation.start: the next conversation, once the last one is remembered.
BeginConversation(playerId, otherPlayerId) ==
  /\ round < MaxRounds
  /\ playerId # otherPlayerId
  /\ AgentOf(playerId) # Undefined \/ AgentOf(otherPlayerId) # Undefined
  /\ \/ conversation.phase = "none"
     \/ /\ conversation.phase = "ended"
        /\ \A a \in DOMAIN agents : agents[a].playerId \in Participants => Remembered(a)
  /\ conversation' = [phase |-> "active", creator |-> playerId, invitee |-> otherPlayerId,
                      numMessages |-> 0]
  /\ round' = round + 1
  /\ calls' = [a \in DOMAIN agents |-> Idle]
  /\ uploads' = EmptyBag
  /\ deleted' = EmptyBag
  /\ UNCHANGED <<agents, tables>>

HumanInConversation ==
  \E p \in Participants : p \in DOMAIN players /\ players[p].human

\* The human player's message.
HumanMessage ==
  /\ conversation.phase = "active"
  /\ HumanInConversation
  /\ conversation.numMessages < MaxMessages
  /\ conversation' = [conversation EXCEPT !.numMessages = @ + 1]
  /\ UNCHANGED <<agents, tables, calls, round, uploads, deleted>>

\* The human player leaves.
HumanLeave ==
  /\ conversation.phase = "active"
  /\ HumanInConversation
  /\ conversation' = Ended(conversation)
  /\ UNCHANGED <<agents, tables, calls, round, uploads, deleted>>

otherVars == <<players, conversations, nextOperation, lastBegun, returnValue, lastInput,
               chain, apiReturn, lastCall, reachable, messages, prompt>>

NextConv ==
  \/ \E p \in TownPlayerIds, q \in TownPlayerIds :
       BeginConversation(p, q) /\ UNCHANGED otherVars
  \/ HumanMessage /\ UNCHANGED otherVars
  \/ HumanLeave /\ UNCHANGED otherVars
  \/ \E a \in AgentIds :
       /\ CanSpeak(a)
       /\ conversation.numMessages = 0
       /\ startConversationMessage(agents[a].playerId, Partner(agents[a].playerId))
       /\ UNCHANGED otherVars
  \/ \E a \in AgentIds : startConversationMessageOther(a) /\ UNCHANGED otherVars
  \/ \E a \in AgentIds :
       /\ CanSpeak(a)
       /\ conversation.numMessages > 0
       /\ conversation.numMessages < MaxMessages
       /\ continueConversationMessage(agents[a].playerId, Partner(agents[a].playerId))
       /\ UNCHANGED otherVars
  \/ \E a \in AgentIds :
       /\ CanSpeak(a)
       /\ conversation.numMessages > 0
       /\ leaveConversationMessage(agents[a].playerId, Partner(agents[a].playerId))
       /\ UNCHANGED otherVars
  \/ \E a \in AgentIds, t \in 1 .. MaxTokens : chatCompletion(a, t) /\ UNCHANGED otherVars
  \/ \E a \in AgentIds :
       /\ calls[a].pc = "updateTokens"
       /\ updateTokens(calls[a].playerId, calls[a].otherPlayerId, calls[a].totalTokens)
       /\ UNCHANGED otherVars
  \/ \E a \in AgentIds : sendMessage(a) /\ UNCHANGED otherVars
  \/ \E a \in AgentIds :
       /\ conversation.phase = "ended"
       /\ agents[a].playerId \in Participants
       /\ calls[a].fn = "none"
       /\ dumpConversationTable(agents[a].playerId, Partner(agents[a].playerId))
       /\ UNCHANGED otherVars
  \/ \E a \in AgentIds : dumpConversationTableMemory(a) /\ UNCHANGED otherVars
  \/ \E a \in AgentIds : dumpConversationTableOther(a) /\ UNCHANGED otherVars
  \/ \E a \in AgentIds : dumpConversationTableOtherMemory(a) /\ UNCHANGED otherVars
  \/ \E a \in AgentIds : dumpConversationTableDelete(a) /\ UNCHANGED otherVars

SpecConv == InitConv /\ [][NextConv]_vars

(***************************************************************************)
(* Consolidation by both agents of an ended conversation.                  *)
(***************************************************************************)
BothAgents ==
  /\ AgentOf(conversation.creator) # Undefined
  /\ AgentOf(conversation.invitee) # Undefined

AllRemembered ==
  /\ conversation.phase = "ended"
  /\ \A a \in DOMAIN agents :
       agents[a].playerId \in Participants => At(a, "dumpConversationTable", "done")

UploadsTo(name) ==
  BagCardinality([d \in {u \in BagToSet(uploads) : u.to = name} |-> uploads[d]])
Deletions(id) == CopiesIn(id, deleted)
Transcripts ==
  {ConversationTableId(players[p].name, players[Partner(p)].name) : p \in Participants}

\* C6 (as stated): once both agents of an ended conversation have run
\* dumpConversationTable, whatever the order of their steps, each
\* participant's knowledge table has taken exactly one document of it.
OneDocumentPerParticipant ==
  (conversation.phase = "ended" /\ BothAgents /\ AllRemembered)
    => \A p \in Participants : UploadsTo(players[p].name) = 1

\* C7: once both agents of an ended conversation have run
\* dumpConversationTable, each of the two transcripts has been deleted exactly
\* once; and no run of dumpConversationTable raises an error or uploads a
\* document for a transcript it did not find.
TranscriptsDeletedOnce ==
  /\ (conversation.phase = "ended" /\ BothAgents /\ AllRemembered)
       => \A t \in Transcripts : Deletions(t) = 1
  /\ \A a \in DOMAIN calls :
       calls[a].fn = "dumpConversationTable"
         => calls[a].pc # "threw" /\ calls[a].sent \subseteq calls[a].found

\* Both agents have remembered, and one of them found a transcript gone.
TranscriptFoundGone ==
  /\ conversation.phase = "ended"
  /\ BothAgents
  /\ AllRemembered
  /\ \E a \in DOMAIN calls : calls[a].found # Transcripts

(***************************************************************************)
(* The usage records.                                                      *)
(***************************************************************************)
Resetting(a) ==
  /\ At(a, "dumpConversationTable", "deleteConversationTable")
  /\ calls'[a].pc = "done"

\* C8 (as stated): the tokenCount of a record never decreases from one state
\* to the next, except when dumpConversationTable resets it to zero.
TokenCountNeverDecreases ==
  [][\A a \in DOMAIN agents : \A i \in DOMAIN agents[a].conversationList :
       \/ agents'[a].conversationList[i].tokenCount
            >= agents[a].conversationList[i].tokenCount
       \/ /\ agents'[a].conversationList[i].tokenCount = 0
          /\ \E b \in DOMAIN agents : Resetting(b)]_vars

\* C9 (as stated): an agent's conversationList holds at most one record per
\* conversationId.
OneRecordPerConversation ==
  \A a \in DOMAIN agents :
    \A i \in DOMAIN agents[a].conversationList :
      \A j \in DOMAIN agents[a].conversationList :
        agents[a].conversationList[i].conversationId
          = agents[a].conversationList[j].conversationId => i = j

UpdatingTokens(a) == calls[a].pc = "updateTokens" /\ calls'[a].pc = "sendMessage"

\* `${player.name}-${otherPlayer.name}` of the call agent a runs.
OwnKey(a) ==
  ConversationTableId(players[calls[a].playerId].name, players[calls[a].otherPlayerId].name)

\* C11: when the acting agent has a record for the conversation key,
\* updateTokens leaves that record's tokenCount equal to the reported total,
\* whatever was stored before.
UpdateTokensReplaces ==
  [][\A a \in DOMAIN calls :
       (UpdatingTokens(a) /\ Some(agents[a].conversationList, OwnKey(a)))
         => agents'[a].conversationList[Find(agents[a].conversationList, OwnKey(a))].tokenCount
              = calls[a].totalTokens]_vars

\* The transcript's second completion has been recorded: a total was stored
\* before, and the record holds the new total.
SecondTotalRecorded ==
  \E a \in DOMAIN calls :
    /\ calls[a].pc = "sendMessage"
    /\ OwnKey(a) \in DOMAIN tables
    /\ tables[OwnKey(a)].rows >= 3
    /\ Some(agents[a].conversationList, OwnKey(a))
    /\ agents[a].conversationList[Find(agents[a].conversationList, OwnKey(a))].tokenCount
         = calls[a].totalTokens

\* C12 (as stated): when the acting agent has no record for the conversation
\* key, updateTokens creates one holding the reported total.
UpdateTokensCreates ==
  [][\A a \in DOMAIN calls :
       (UpdatingTokens(a) /\ ~Some(agents[a].conversationList, OwnKey(a)))
         => /\ Some(agents'[a].conversationList, OwnKey(a))
            /\ agents'[a].conversationList[Find(agents'[a].conversationList, OwnKey(a))].tokenCount
                 = calls[a].totalTokens]_vars

\* The documents built from transcript id that the knowledge table of name
\* has taken.
DocumentsOf(id, name) ==
  BagCardinality([d \in {u \in BagToSet(uploads) : u.to = name /\ u.from = id}
                    |-> uploads[d]])

\* C13 (as stated): once agent A's dumpConversationTable has completed, having
\* found its transcript A-B, exactly one document built from A-B has been
\* uploaded to A's knowledge table, the transcript A-B is gone, and A's
\* tokenCount for A-B is 0.
ConsolidatedOnce ==
  \A a \in DOMAIN calls :
    (At(a, "dumpConversationTable", "done") /\ OwnKey(a) \in calls[a].found)
      => /\ DocumentsOf(OwnKey(a), players[calls[a].playerId].name) = 1
         /\ OwnKey(a) \notin DOMAIN tables
         /\ \A i \in DOMAIN agents[a].conversationList :
              agents[a].conversationList[i].conversationId = OwnKey(a)
                => agents[a].conversationList[i].tokenCount = 0

(***************************************************************************)
(* createAgent's provisioning chain (lines 150-168): four requests, each   *)
(* sent by the .then callback of the one before it; the chain runs after   *)
(* the handler has returned, while the service comes and goes.             *)
(***************************************************************************)
Links ==
  <<"createAgentKnowledgeTable", "createAgentChatTable", "configureAgentChatTable",
    "generateTextDuringInteraction">>

ThenConfiguringFirst(pc) ==
  CASE pc = "createAgentKnowledgeTable" -> "configureAgentChatTable"
    [] pc = "configureAgentChatTable" -> "createAgentChatTable"
    [] pc = "createAgentChatTable" -> "generateTextDuringInteraction"
    [] pc = "generateTextDuringInteraction" -> "done"

\* The callback .then registers on the promise of the request pc.
Then(pc) ==
  CASE pc = "createAgentKnowledgeTable" -> "createAgentChatTable"
    [] pc = "createAgentChatTable" -> "configureAgentChatTable"
    [] pc = "configureAgentChatTable" -> "generateTextDuringInteraction"
    [] pc = "generateTextDuringInteraction" -> "done"

\* A link of chain k: its request is sent and answered; a promise that
\* rejects goes to .catch, one that resolves to the next .then.
Linked(k, r, failed) ==
  /\ tables' = r.svc
  /\ chain' = [chain EXCEPT
       ![k].pc = IF r.returned = "throws" THEN "catch" ELSE Then(chain[k].pc),
       ![k].issued = Append(@, [request |-> chain[k].pc, failed |-> failed])]
  /\ UNCHANGED <<agents, players, conversations, nextOperation, lastBegun, returnValue,
                 lastInput, apiReturn, lastCall, reachable, convVars, promptVars>>

\* Line 150.
chainCreateAgentKnowledgeTable(k) ==
  /\ chain[k].pc = "createAgentKnowledgeTable"
  /\ Linked(k, createAgentKnowledgeTable(tables, chain[k].name),
            ~jamaiCreateKnowledgeTable(tables, KnowledgeTableId(chain[k].name)).ok)

\* Lines 151-153.
chainCreateAgentChatTable(k) ==
  /\ chain[k].pc = "createAgentChatTable"
  /\ Linked(k, createAgentChatTable(tables, chain[k].name),
            ~jamaiCreateChatTable(tables, ChatTableId(chain[k].name)).ok)

\* Lines 155-157.
chainConfigureAgentChatTable(k) ==
  /\ chain[k].pc = "configureAgentChatTable"
  /\ Linked(k, configureAgentChatTable(tables, chain[k].name),
            ~jamaiUpdateGenConfig(tables, ChatTableId(chain[k].name),
                                  KnowledgeTableId(chain[k].name)).ok)

\* Lines 158-163: the row that seeds the template.
chainGenerateTextDuringInteraction(k) ==
  /\ chain[k].pc = "generateTextDuringInteraction"
  /\ Linked(k, generateTextDuringInteraction(tables, ChatTableId(chain[k].name)),
            ~jamaiAddRow(tables, ChatTableId(chain[k].name)).ok)

InitChain == InitFence

NextChain ==
  \/ \E i \in DOMAIN Descriptions :
       i = Len(agents) + 1 /\ createAgent(i) /\ UNCHANGED <<apiVars, convVars, promptVars>>
  \/ \E k \in DOMAIN chain : chainCreateAgentKnowledgeTable(k)
  \/ \E k \in DOMAIN chain : chainCreateAgentChatTable(k)
  \/ \E k \in DOMAIN chain : chainConfigureAgentChatTable(k)
  \/ \E k \in DOMAIN chain : chainGenerateTextDuringInteraction(k)
  \/ Outage

SpecChain == InitChain /\ [][NextChain]_vars

\* C15: the requests of a chain are sent in the order knowledge table, chat
\* template, retrieval configuration, seed row, each after the one before it
\* was answered: what a chain has sent is always a prefix of that order, and
\* the request it is about to send is the next of it.
ChainInOrder ==
  \A k \in DOMAIN chain :
    /\ Len(chain[k].issued) <= Len(Links)
    /\ \A i \in DOMAIN chain[k].issued : chain[k].issued[i].request = Links[i]
    /\ chain[k].pc \in {Links[i] : i \in DOMAIN Links}
         => chain[k].pc = Links[Len(chain[k].issued) + 1]
    /\ chain[k].pc = "done" => Len(chain[k].issued) = Len(Links)

\* A chain has run to its end with every request answered, and the template
\* is configured on the agent's knowledge table and seeded.
ChainProvisioned ==
  \E k \in DOMAIN chain :
    /\ chain[k].pc = "done"
    /\ \A i \in DOMAIN chain[k].issued : ~chain[k].issued[i].failed
    /\ KnowledgeTableId(chain[k].name) \in DOMAIN tables
    /\ ChatTableId(chain[k].name) \in DOMAIN tables
    /\ tables[ChatTableId(chain[k].name)].rag = KnowledgeTableId(chain[k].name)
    /\ tables[ChatTableId(chain[k].name)].rows = 1

\* C16 (as stated): when a request of the chain fails at the service, the
\* chain sends none of the requests that follow it; createAgent has returned
\* without an error.
NothingIssuedAfterFailure ==
  /\ returnValue = Ok
  /\ \A k \in DOMAIN chain :
       \A i \in DOMAIN chain[k].issued :
         chain[k].issued[i].failed => i = Len(chain[k].issued)

\* `${otherPlayer.name}-${player.name}` of the call agent a runs.
OtherKey(a) ==
  ConversationTableId(players[calls[a].otherPlayerId].name, players[calls[a].playerId].name)

\* The call of agent a is startConversationMessage and has come to its
\* chatCompletion, or is past it.
Opening(a) ==
  /\ calls[a].fn = "startConversationMessage"
  /\ calls[a].pc \in {"chatCompletion", "updateTokens", "sendMessage"}

\* C19 (as stated): when startConversationMessage comes to send the request
\* for the opening line, the requests to copy the transcripts of both
\* directions, A-B and B-A, have been sent and answered.
BothTranscriptsRequestedAlways ==
  \A a \in DOMAIN calls :
    Opening(a) => {OwnKey(a), OtherKey(a)} \subseteq calls[a].provisioned

\* C19 (amended): at that point the request to copy A-B has been sent and
\* answered, and so has the one for B-A when B is an agent; for a human B no
\* request for B-A is sent.
BothTranscriptsRequested ==
  \A a \in DOMAIN calls :
    Opening(a) =>
      calls[a].provisioned =
        IF players[calls[a].otherPlayerId].human THEN {OwnKey(a)}
        ELSE {OwnKey(a), OtherKey(a)}

\* An agent has opened a conversation with another agent: both transcripts
\* exist and the opening line has been generated.
OpeningLineGenerated ==
  \E a \in DOMAIN calls :
    /\ At(a, "startConversationMessage", "updateTokens")
    /\ ~players[calls[a].otherPlayerId].human
    /\ {OwnKey(a), OtherKey(a)} \subseteq DOMAIN tables
    /\ calls[a].provisioned = {OwnKey(a), OtherKey(a)}

(***************************************************************************)
(* previousMessages (lines 935-956), over the message histories of one     *)
(* conversation of two players: either of them writes, at any time, and    *)
(* either of them asks for the previous messages, at any time.             *)
(***************************************************************************)
MaxHistory == 3
Texts == {"hello", "goodbye"}

\* The two players, as queryPromptData hands them to the functions.
Speakers == {[id |-> i, name |-> Descriptions[i].name] : i \in DOMAIN Descriptions}

\* messages.writeMessage: the message joins the conversation's messages.
writeMessage(author, text) ==
  /\ Len(messages) < MaxHistory
  /\ messages' = Append(messages, [author |-> author.id, text |-> text])
  /\ UNCHANGED prompt

\* api.messages.listMessages: the conversation's messages, oldest first.
listMessages == messages

\* `${author.name} to ${recipient.name}: ${message.text}`
Content(author, recipient, text) == <<author.name, " to ", recipient.name, ": ", text>>

\* Lines 943-955: the llmMessages returned.
LlmMessages(player, otherPlayer) ==
  LET prevMessages == listMessages
  IN IF Len(prevMessages) > 0
       THEN LET message == prevMessages[Len(prevMessages)]
                author == IF message.author = player.id THEN player ELSE otherPlayer
                recipient == IF message.author = player.id THEN otherPlayer ELSE player
            IN <<[role |-> "user", content |-> Content(author, recipient, message.text)]>>
       ELSE << >>

previousMessages(player, otherPlayer) ==
  /\ prompt' = [player |-> player, otherPlayer |-> otherPlayer,
                llmMessages |-> LlmMessages(player, otherPlayer)]
  /\ UNCHANGED messages

InitMessages == InitFence

NextMessages ==
  \/ \E author \in Speakers, text \in Texts :
       writeMessage(author, text) /\ UNCHANGED <<fenceVars, apiVars, convVars>>
  \/ \E player \in Speakers : \E otherPlayer \in Speakers \ {player} :
       previousMessages(player, otherPlayer) /\ UNCHANGED <<fenceVars, apiVars, convVars>>

SpecMessages == InitMessages /\ [][NextMessages]_vars

\* The messages of the history that the player wrote.
WrittenBy(player) == SelectSeq(messages, LAMBDA m : m.author = player.id)

\* C20 (as stated): whatever the history, previousMessages gives the
\* generation request at most one message, and that message is the last one
\* the partner wrote, as "<partner> to <acting participant>: <text>".
OnlyPartnersLastMessage ==
  [][prompt' # prompt =>
       LET acting == prompt'.player
           partner == prompt'.otherPlayer
           llmMessages == prompt'.llmMessages
           written == WrittenBy(partner)
       IN /\ Len(llmMessages) <= 1
          /\ Len(llmMessages) = 1 =>
               /\ Len(written) > 0
               /\ llmMessages[1].content =
                    Content(partner, acting, written[Len(written)].text)]_vars

(***************************************************************************)
(* Conversations a human player begins.                                    *)
(***************************************************************************)
HumanBegan ==
  /\ conversation.phase = "active"
  /\ conversation.creator \in DOMAIN players
  /\ players[conversation.creator].human

\* The call of agent a is about to send its generation request.
Dispatching(a) ==
  /\ calls[a].fn \in {"startConversationMessage", "continueConversationMessage",
                      "leaveConversationMessage"}
  /\ calls[a].pc = "chatCompletion"

\* C21 (as stated): in a conversation a human player began, whenever the
\* agent is about to send a generation request, its own transcript has been
\* provisioned: no request goes to a transcript that does not exist.
GenerationHasTranscript ==
  \A a \in DOMAIN calls :
    (HumanBegan /\ Dispatching(a)) => OwnKey(a) \in DOMAIN tables

(***************************************************************************)
(* The three generation functions read the world and write nothing of it.  *)
(***************************************************************************)
GenerationNames ==
  {"startConversationMessage", "continueConversationMessage", "leaveConversationMessage"}

\* A step of one of the three functions, from its query to the return of
\* the generated content (the token update and the write of the message come
\* after the return).
Generates(a) ==
  /\ calls'[a] # calls[a]
  /\ round' = round
  /\ \/ calls'[a].fn \in GenerationNames /\ calls[a].fn = "none"
     \/ calls[a].fn \in GenerationNames
          /\ calls[a].pc \in {"createAgentConversationTable", "chatCompletion"}

\* C24: no step of startConversationMessage, continueConversationMessage or
\* leaveConversationMessage changes the conversation (participants, number of
\* messages, lifecycle state) or any agent's operation in progress.
GenerationKeepsConversation ==
  [][\A a \in DOMAIN calls :
       Generates(a) =>
         /\ conversation' = conversation
         /\ conversations' = conversations
         /\ \A b \in DOMAIN agents :
              agents'[b].inProgressOperation = agents[b].inProgressOperation]_vars

\* A farewell has been generated and the conversation is still under way.
FarewellGenerated ==
  \E a \in DOMAIN calls :
    /\ calls[a].fn = "leaveConversationMessage"
    /\ calls[a].pc = "updateTokens"
    /\ conversation.phase = "active"
    /\ conversation.numMessages = 1

(***************************************************************************)
(* Remembering a conversation while the service comes and goes.  Alice has *)
(* opened a conversation with Bob (both transcripts provisioned, her line  *)
(* generated and counted) and the conversation has ended; the two agents   *)
(* now remember it, each request reaching the service or not.              *)
(***************************************************************************)
InitDump ==
  LET alice == Descriptions[1].name
      bob == Descriptions[2].name
      own == ConversationTableId(alice, bob)
      other == ConversationTableId(bob, alice)
  IN /\ reachable = TRUE
     /\ players = Append([i \in DOMAIN Descriptions |->
                            PlayerJoin(<< >>, Descriptions[i].name)[1]],
                         [PlayerJoin(<< >>, HumanName)[1] EXCEPT !.human = TRUE])
     /\ agents = [i \in DOMAIN Descriptions |->
                    [NewAgent(i, Descriptions[i]) EXCEPT !.conversationList =
                       IF i = 1
                         THEN SetTokenCount(PushUnlessSome(<< >>, own, UsageRecord(own)), own, 1)
                         ELSE PushUnlessSome(<< >>, other, UsageRecord(own))]]
     /\ tables =
          LET town == Provisioned(Provisioned(<< >>, alice), bob)
          IN [id \in DOMAIN town \cup {own, other} |->
                IF id = own
                  THEN [town[ChatTableId(alice)] EXCEPT
                          !.parent = ChatTableId(alice), !.rows = @ + 1, !.tokens = 1]
                ELSE IF id = other
                  THEN [town[ChatTableId(bob)] EXCEPT !.parent = ChatTableId(bob)]
                ELSE town[id]]
     /\ conversations = << >>
     /\ nextOperation = 1
     /\ lastBegun = [i \in DOMAIN Descriptions |-> 0]
     /\ returnValue = Ok
     /\ lastInput = NoInput
     /\ chain = << >>
     /\ apiReturn = "undefined"
     /\ lastCall = NoCall
     /\ conversation = Ended([phase |-> "active", creator |-> 1, invitee |-> 2,
                              numMessages |-> 1])
     /\ calls = [i \in DOMAIN Descriptions |-> Idle]
     /\ round = 1
     /\ uploads = EmptyBag
     /\ deleted = EmptyBag
     /\ messages = << >>
     /\ prompt = << >>

NextDump ==
  \/ \E a \in AgentIds :
       /\ conversation.phase = "ended"
       /\ agents[a].playerId \in Participants
       /\ calls[a].fn = "none"
       /\ dumpConversationTable(agents[a].playerId, Partner(agents[a].playerId))
       /\ UNCHANGED otherVars
  \/ \E a \in AgentIds : dumpConversationTableMemory(a) /\ UNCHANGED otherVars
  \/ \E a \in AgentIds : dumpConversationTableOther(a) /\ UNCHANGED otherVars
  \/ \E a \in AgentIds : dumpConversationTableOtherMemory(a) /\ UNCHANGED otherVars
  \/ \E a \in AgentIds : dumpConversationTableDelete(a) /\ UNCHANGED otherVars
  \/ Outage

SpecDump == InitDump /\ [][NextDump]_vars

\* The counter of transcript `id` in the list of the agent named first in it.
Counter(ags, id) ==
  LET a == CHOOSE a \in DOMAIN ags : Descriptions[a].name = id[1]
      i == Find(ags[a].conversationList, id)
  IN IF i = 0 THEN 0 ELSE ags[a].conversationList[i].tokenCount

Uploaded(id) == \E doc \in BagToSet(uploads) : doc.from = id

\* C25: a transcript is deleted, and its counter reset to zero, only when the
\* document built from it has been uploaded to a knowledge table.
DeletedOnlyAfterUpload ==
  [][\A id \in ConversationTableIds :
       /\ (id \in DOMAIN tables /\ id \notin DOMAIN tables') => Uploaded(id)
       /\ (Counter(agents, id) > 0 /\ Counter(agents', id) = 0) => Uploaded(id)]_vars

\* The call of agent a is dumpConversationTable and has returned.
Dumped(a) == At(a, "dumpConversationTable", "done")

\* The call of agent a took the step that uploads the document built from
\* transcript id: one more document, from id, in the knowledge table of the
\* agent named first in id.
UploadsOne(a, id) ==
  /\ calls'[a].sent = calls[a].sent \cup {id}
  /\ \E doc \in BagToSet(uploads') :
       /\ doc.to = id[1]
       /\ doc.from = id
       /\ uploads' = uploads (+) SetToBag({doc})

\* C26 (as stated): a call of dumpConversationTable made while the
\* transcripts of both directions exist uploads a document for each.
BothDirectionsUploadedAlways ==
  \A a \in DOMAIN calls :
    (Dumped(a) /\ calls[a].present = {OwnKey(a), OtherKey(a)})
      => calls[a].sent = {OwnKey(a), OtherKey(a)}

\* C26 (amended): a call of dumpConversationTable that finds the transcripts
\* of both directions when it lists them uploads one document for each: the
\* one built from A-B to the caller's knowledge table, the one built from B-A
\* to the counterpart's.
BothDirectionsUploaded ==
  [][\A a \in DOMAIN calls :
       (calls'[a].fn = "dumpConversationTable" /\ calls'[a] # calls[a]) =>
         /\ calls'[a].sent # calls[a].sent
              => \/ At(a, "dumpConversationTable", "dumpMemory") /\ UploadsOne(a, OwnKey(a))
                 \/ At(a, "dumpConversationTable", "dumpOtherMemory")
                      /\ UploadsOne(a, OtherKey(a))
         /\ (calls'[a].pc = "done" /\ calls'[a].found = {OwnKey(a), OtherKey(a)})
              => calls'[a].sent = {OwnKey(a), OtherKey(a)}]_vars

\* A call has returned after uploading the documents of both directions.
BothDirectionsConsolidated ==
  \E a \in DOMAIN calls :
    /\ Dumped(a)
    /\ calls[a].present = {OwnKey(a), OtherKey(a)}
    /\ calls[a].found = {OwnKey(a), OtherKey(a)}
    /\ calls[a].sent = {OwnKey(a), OtherKey(a)}
    /\ DocumentsOf(OwnKey(a), players[calls[a].playerId].name) >= 1
    /\ DocumentsOf(OtherKey(a), players[calls[a].otherPlayerId].name) >= 1

(***************************************************************************)
(* createAgent returns as soon as it has sent the first request of its     *)
(* chain (line 150); the agent it registered takes part in the game from   *)
(* then on, while the chain's callbacks run.  The conversations of the     *)
(* agents registered so far, interleaved with the chains.                  *)
(***************************************************************************)
\* An opening line is attempted while no usage list has come to this length.
MaxRecords == 2

InitStart == InitFence

NextStart ==
  \/ \E i \in DOMAIN Descriptions :
       /\ i = Len(agents) + 1
       /\ createAgent(i)
       /\ calls' = Append(calls, Idle)
       /\ UNCHANGED <<apiVars, conversation, round, uploads, deleted, promptVars>>
  \/ \E k \in DOMAIN chain : chainCreateAgentKnowledgeTable(k)
  \/ \E k \in DOMAIN chain : chainCreateAgentChatTable(k)
  \/ \E k \in DOMAIN chain : chainConfigureAgentChatTable(k)
  \/ \E k \in DOMAIN chain : chainGenerateTextDuringInteraction(k)
  \/ \E p \in DOMAIN players, q \in DOMAIN players :
       BeginConversation(p, q) /\ UNCHANGED otherVars
  \/ \E a \in DOMAIN agents :
       /\ CanSpeak(a)
       /\ conversation.numMessages = 0
       /\ \A b \in DOMAIN agents : Len(agents[b].conversationList) < MaxRecords
       /\ startConversationMessage(agents[a].playerId, Partner(agents[a].playerId))
       /\ UNCHANGED otherVars
  \/ \E a \in DOMAIN agents : startConversationMessageOther(a) /\ UNCHANGED otherVars
  \/ \E a \in DOMAIN agents, t \in 1 .. MaxTokens :
       chatCompletion(a, t) /\ UNCHANGED otherVars
  \/ \E a \in DOMAIN agents :
       /\ calls[a].pc = "updateTokens"
       /\ updateTokens(calls[a].playerId, calls[a].otherPlayerId, calls[a].totalTokens)
       /\ UNCHANGED otherVars
  \/ \E a \in DOMAIN agents : sendMessage(a) /\ UNCHANGED otherVars

SpecStart == InitStart /\ [][NextStart]_vars

\* The chain of the agent called name has had its request to create the chat
\* template answered.
TemplateCreated(name) ==
  \E k \in DOMAIN chain :
    /\ chain[k].name = name
    /\ \E i \in DOMAIN chain[k].issued : chain[k].issued[i].request = "createAgentChatTable"

\* C27: a request to copy a transcript from an agent's chat template is sent
\* only when that agent's chain has created the template, however the chains
\* and the conversations interleave.
DuplicationAfterTemplate ==
  \A a \in DOMAIN calls :
    \A id \in calls[a].provisioned : TemplateCreated(id[1])

\* C28: once startConversationMessage by A with an agent counterpart B has
\* pushed its usage records, A's conversationList holds a record keyed A-B and
\* B's conversationList one keyed B-A.
BothDirectionsRecorded ==
  \A a \in DOMAIN calls :
    (Opening(a) /\ AgentOf(calls[a].otherPlayerId) # Undefined)
      => /\ Some(agents[a].conversationList, OwnKey(a))
         /\ Some(agents[AgentOf(calls[a].otherPlayerId)].conversationList, OtherKey(a))

(***************************************************************************)
(* dumpMemory's document (lines 820-851).  A row of a transcript has a     *)
(* User cell (generateTextDuringInteraction always sends one, line 344),   *)
(* an AI cell once the reply is there, and the time of its last update;    *)
(* listRows gives the rows newest first.  A text is the sequence of its    *)
(* parts, a marker `${a} to ${b}:` being one part; the document is the     *)
(* sequence of its lines.                                                  *)
(***************************************************************************)
MaxItems == 2

NoCell == [absent |-> TRUE]
Word(w) == [word |-> w]
Marker(author, recipient) == [from |-> author, to |-> recipient]

Markers == {Marker(a, b) : a \in AgentNames, b \in AgentNames} \ {Marker(a, a) : a \in AgentNames}
UserTexts ==
  {<< >>, <<Word("hello")>>}
    \cup {<<m>> : m \in Markers}
    \cup {<<Word("hello"), m, Word("hello")>> : m \in Markers}
    \cup {<<m, Word("hello"), m>> : m \in Markers}
AICells == {NoCell, [value |-> "yes"]}
Identities == {"undefined"} \cup {Descriptions[i].identity : i \in DOMAIN Descriptions}

\* What listRows can return for a transcript of n rows.
ItemLists ==
  UNION {{[i \in 1 .. n |-> [User |-> [value |-> u[i]], AI |-> a[i], UpdatedAt |-> n + 1 - i]] :
            u \in [1 .. n -> UserTexts], a \in [1 .. n -> AICells]} : n \in 0 .. MaxItems}

\* items.reverse()
reverse(items) == [i \in 1 .. Len(items) |-> items[Len(items) + 1 - i]]

\* userContent.indexOf(marker): the first place of the marker, counted from
\* 1; 0 when it is not there (-1 in the source, counted from 0).
indexOf(userContent, marker) ==
  IF \E i \in DOMAIN userContent : userContent[i] = marker
    THEN CHOOSE i \in DOMAIN userContent :
           /\ userContent[i] = marker
           /\ \A j \in 1 .. (i - 1) : userContent[j] # marker
    ELSE 0

\* userContent.substring(start)
substring(userContent, start) == SubSeq(userContent, start, Len(userContent))

\* Lines 827-845: the lines one row adds to allContents.
forEachItem(item, player, otherPlayer) ==
  IF item.User # NoCell
    THEN LET userContent == item.User.value
             otherPlayerDialogueStart == indexOf(userContent, Marker(otherPlayer, player))
         IN (IF otherPlayerDialogueStart # 0
               THEN <<[line |-> "Conversation started at: ", at |-> item.UpdatedAt],
                      [line |-> "relevantText",
                       text |-> substring(userContent, otherPlayerDialogueStart)]>>
               ELSE <<[line |-> "Summary of conversation with ", otherPlayer |-> otherPlayer,
                       at |-> item.UpdatedAt]>>)
            \o (IF item.AI # NoCell
                  THEN <<[line |-> ": ", player |-> player, value |-> item.AI.value]>>
                  ELSE << >>)
    ELSE << >>

RECURSIVE forEach(_, _, _)
forEach(items, player, otherPlayer) ==
  IF items = << >> THEN << >>
  ELSE forEachItem(Head(items), player, otherPlayer) \o forEach(Tail(items), player, otherPlayer)

\* allContents as lines 821-845 leave it, had the rows been taken as listed.
fileContentAsListed(items, player, otherPlayer, otherPlayDesc) ==
  (IF otherPlayDesc # "undefined"
     THEN <<[line |-> "otherPlayDesc", identity |-> otherPlayDesc]>>
     ELSE << >>)
    \o forEach(items, player, otherPlayer)

\* allContents as lines 821-845 leave it; join('\n') makes the lines the file.
fileContent(items, player, otherPlayer, otherPlayDesc) ==
  (IF otherPlayDesc # "undefined"
     THEN <<[line |-> "otherPlayDesc", identity |-> otherPlayDesc]>>
     ELSE << >>)
    \o forEach(reverse(items), player, otherPlayer)

\* dumpMemory(responseBody, player, otherPlayer, otherPlayDesc): the call it
\* makes of dumpMemoryIntoKnowledgeTable (line 850).
dumpMemoryFile(player, otherPlayer, otherPlayDesc) ==
  /\ lastCall' = Call("dumpMemoryIntoKnowledgeTable",
                      <<player, fileContent(apiReturn.items, player, otherPlayer,
                                            otherPlayDesc)>>)
  /\ UNCHANGED <<fenceVars, tables, apiReturn, reachable, convVars, promptVars>>

InitMemory ==
  /\ reachable = TRUE
  /\ agents = << >>
  /\ players = << >>
  /\ conversations = << >>
  /\ nextOperation = 1
  /\ lastBegun = << >>
  /\ returnValue = Ok
  /\ lastInput = NoInput
  /\ chain = << >>
  /\ tables = << >>
  /\ apiReturn \in {[items |-> items] : items \in ItemLists}
  /\ lastCall = NoCall
  /\ conversation = NoConversation
  /\ calls = << >>
  /\ round = 0
  /\ uploads = EmptyBag
  /\ deleted = EmptyBag
  /\ messages = << >>
  /\ prompt = << >>

NextMemory ==
  \E player \in AgentNames, otherPlayer \in AgentNames, otherPlayDesc \in Identities :
    /\ player # otherPlayer
    /\ dumpMemoryFile(player, otherPlayer, otherPlayDesc)

SpecMemory == InitMemory /\ [][NextMemory]_vars

\* The row of the transcript that was updated k-th.
Aged(items, k) == items[CHOOSE i \in DOMAIN items : items[i].UpdatedAt = k]

\* What the document is to hold for one row: the user text from the marker
\* on, or the summary line in its place; then the agent's text with the
\* agent's name before it.
Held(item, agent, counterpart) ==
  LET text == item.User.value
      marked == \E i \in DOMAIN text : text[i] = Marker(counterpart, agent)
      from == CHOOSE i \in DOMAIN text :
                text[i] = Marker(counterpart, agent)
                  /\ \A j \in 1 .. (i - 1) : text[j] # Marker(counterpart, agent)
  IN <<IF marked
         THEN [line |-> "relevantText", text |-> SubSeq(text, from, Len(text))]
         ELSE [line |-> "Summary of conversation with ", otherPlayer |-> counterpart,
               at |-> item.UpdatedAt]>>
       \o (IF item.AI = NoCell THEN << >>
           ELSE <<[line |-> ": ", player |-> agent, value |-> item.AI.value]>>)

RECURSIVE HeldFrom(_, _, _, _)
HeldFrom(items, k, agent, counterpart) ==
  IF k > Len(items) THEN << >>
  ELSE Held(Aged(items, k), agent, counterpart) \o HeldFrom(items, k + 1, agent, counterpart)

\* The lines of a document that come from the rows' texts.
OfRows(file) ==
  SelectSeq(file, LAMBDA l : l.line \notin {"otherPlayDesc", "Conversation started at: "})

\* C29: the document dumpMemory uploads holds the rows oldest first; for each
\* row, the user text from the marker "<counterpart> to <agent>:" on when the
\* marker is in it, a summary line in its place otherwise, and then the
\* agent's text after "<agent>: ".
DocumentHoldsRows ==
  [][\A player \in AgentNames, otherPlayer \in AgentNames, otherPlayDesc \in Identities :
       (player # otherPlayer /\ dumpMemoryFile(player, otherPlayer, otherPlayDesc))
         => OfRows(lastCall'.args[2]) = HeldFrom(apiReturn.items, 1, player, otherPlayer)]_vars

\* A document was made of two rows, the older without the marker and the
\* newer with words before it: a summary line, a reply, the time the
\* conversation started, the text from the marker on, a reply.
DocumentOfTwoRows ==
  /\ lastCall.name = "dumpMemoryIntoKnowledgeTable"
  /\ lastCall.args[1] = "Alice"
  /\ Len(apiReturn.items) = 2
  /\ apiReturn.items[1].User.value
       = <<Word("hello"), Marker("Bob", "Alice"), Word("hello")>>
  /\ apiReturn.items[2].User.value = <<Word("hello")>>
  /\ apiReturn.items[1].AI = [value |-> "yes"]
  /\ apiReturn.items[2].AI = [value |-> "yes"]
  /\ lastCall.args[2] =
       <<[line |-> "Summary of conversation with ", otherPlayer |-> "Bob", at |-> 1],
         [line |-> ": ", player |-> "Alice", value |-> "yes"],
         [line |-> "Conversation started at: ", at |-> 2],
         [line |-> "relevantText", text |-> <<Marker("Bob", "Alice"), Word("hello")>>],
         [line |-> ": ", player |-> "Alice", value |-> "yes"]>>

\* The identity of the counterpart of the agent called name.
CounterpartIdentity(name) ==
  LET p == CHOOSE p \in Participants : players[p].name = name
  IN IdentityOf(AgentOf(Partner(p)))

\* C30: every document a dumpConversationTable call uploads opens with the
\* identity of the counterpart of the agent whose knowledge table takes it,
\* when the counterpart has one.
DocumentOpensWithCounterpart ==
  \A doc \in BagToSet(uploads) :
    CounterpartIdentity(doc.to) # "undefined" => doc.first = CounterpartIdentity(doc.to)

\* C31: the knowledge table handle createAgent stores on the agent is the id
\* of the knowledge table its chain creates, that the chat template is
\* configured to retrieve from, and that dumpMemoryIntoKnowledgeTable uploads
\* to.
HandleNamesKnowledgeTable ==
  \A k \in DOMAIN chain :
    \A a \in DOMAIN agents :
      (players[agents[a].playerId].name = chain[k].name
         /\ KnowledgeTableId(chain[k].name) \in DOMAIN tables)
        => /\ agents[a].knowledgeTableId = KnowledgeTableId(chain[k].name)
           /\ agents[a].knowledgeTableId \in DOMAIN tables

(***************************************************************************)
(* The kind of the operation in progress and the handler that completes    *)
(* it.  Under SpecLeave every operation in progress is an                  *)
(* agentGenerateMessage.                                                   *)
(***************************************************************************)
Corresponding(name) ==
  CASE name = "finishRememberConversation" -> "agentRememberConversation"
    [] name = "finishDoSomething" -> "agentDoSomething"
    [] name = "agentFinishSendingMessage" -> "agentGenerateMessage"

AbsentInviteeClearsOnly ==
  [][LET i == lastInput'
         a == i.agentId
     IN (/\ i.name = "finishDoSomething"
         /\ Matching(a, i.operationId))
          => \A t \in Times, d \in Destinations, act \in Activities,
                inv \in Invitees \ DOMAIN players :
               (inv # Undefined /\ finishDoSomething(t, i.operationId, a, d, inv, act))
                 => /\ returnValue' = Error
                    /\ agents' = [agents EXCEPT ![a].inProgressOperation = NoOperation]
                    /\ conversations' = conversations
                    /\ players' = players]_vars

\* The completion was accepted and failed: the agent holds no operation, has
\* invited nobody, and its player has neither moved nor taken up an activity.
AbsentInviteeFailed ==
  /\ lastInput.name = "finishDoSomething"
  /\ lastInput.accepted
  /\ returnValue = Error
  /\ InProgress(lastInput.agentId) = NoOperation
  /\ agents[lastInput.agentId].lastInviteAttempt = Undefined
  /\ players[agents[lastInput.agentId].playerId].activity = NoActivity
  /\ conversations = << >>

\* C34: updateTokens, run for participant A with counterpart agent B, writes
\* the reported total into A's record of key A-B and into B's record of key
\* B-A, each where the record exists; every other record of every agent, and
\* the length of every list, is left as it was.
TotalWrittenToBothOnly ==
  [][\A a \in DOMAIN calls :
       UpdatingTokens(a) =>
         LET b == AgentOf(calls[a].otherPlayerId)
             Written(x, k) ==
               \/ x = a /\ k = Find(agents[a].conversationList, OwnKey(a))
               \/ x = b /\ k = Find(agents[b].conversationList, OtherKey(a))
         IN \A x \in DOMAIN agents :
              /\ DOMAIN agents'[x].conversationList = DOMAIN agents[x].conversationList
              /\ \A k \in DOMAIN agents[x].conversationList :
                   agents'[x].conversationList[k] =
                     IF Written(x, k)
                       THEN [agents[x].conversationList[k] EXCEPT
                               !.tokenCount = calls[a].totalTokens]
                       ELSE agents[x].conversationList[k]]_vars

\* The total of the call is on A's record A-B and on B's record B-A, while
\* the record of key A-B in B's list has stayed at zero.
BothTotalsWritten ==
  \E a \in DOMAIN calls :
    /\ calls[a].fn # "none"
    /\ calls[a].pc = "sendMessage"
    /\ calls[a].totalTokens > 0
    /\ AgentOf(calls[a].otherPlayerId) # Undefined
    /\ LET b == AgentOf(calls[a].otherPlayerId)
           own == agents[a].conversationList
           other == agents[b].conversationList
       IN /\ Some(own, OwnKey(a))
          /\ own[Find(own, OwnKey(a))].tokenCount = calls[a].totalTokens
          /\ Some(other, OtherKey(a))
          /\ other[Find(other, OtherKey(a))].tokenCount = calls[a].totalTokens
          /\ Some(other, OwnKey(a))
          /\ other[Find(other, OwnKey(a))].tokenCount = 0

\* C35: a call of dumpConversationTable by participant A changes no agent
\* but A, and A only by setting the counter of its record A-B to zero; it
\* removes no transcript but A-B, and leaves the transcript B-A as it was,
\* also in the step that uploads the document built from B-A.
DumpResetsOwnOnly ==
  [][\A a \in DOMAIN calls :
       (calls'[a].fn = "dumpConversationTable" /\ calls'[a] # calls[a]) =>
         LET own == ConversationTableId(players[calls'[a].playerId].name,
                                        players[calls'[a].otherPlayerId].name)
             other == ConversationTableId(players[calls'[a].otherPlayerId].name,
                                          players[calls'[a].playerId].name)
             k == Find(agents[a].conversationList, own)
         IN /\ \A x \in DOMAIN agents \ {a} : agents'[x] = agents[x]
            /\ IF k # 0 /\ calls[a].pc = "deleteConversationTable"
                 THEN agents'[a] = [agents[a] EXCEPT !.conversationList[k].tokenCount = 0]
                 ELSE agents'[a] = agents[a]
            /\ DOMAIN tables \ DOMAIN tables' \subseteq {own}
            /\ other \in DOMAIN tables
                 => other \in DOMAIN tables' /\ tables'[other] = tables[other]]_vars

\* A's call has returned after uploading the document built from B-A: the
\* transcript A-B is gone and A's counter for it is zero, while the
\* transcript B-A is there and B's counter for it is not zero.
CounterpartLeftToDump ==
  \E a \in DOMAIN calls :
    /\ Dumped(a)
    /\ AgentOf(calls[a].otherPlayerId) # Undefined
    /\ LET b == AgentOf(calls[a].otherPlayerId)
       IN /\ Uploaded(OtherKey(a))
          /\ OtherKey(a) \in calls[a].sent
          /\ OwnKey(a) \notin DOMAIN tables
          /\ deleted = SetToBag({OwnKey(a)})
          /\ Some(agents[a].conversationList, OwnKey(a))
          /\ agents[a].conversationList[Find(agents[a].conversationList, OwnKey(a))].tokenCount = 0
          /\ OtherKey(a) \in DOMAIN tables
          /\ Some(agents[b].conversationList, OtherKey(a))
          /\ agents[b].conversationList[Find(agents[b].conversationList, OtherKey(a))].tokenCount > 0

\* The toRemember markers of the agents are as they were.
MarkersKept == \A x \in DOMAIN agents : agents'[x].toRemember = agents[x].toRemember

\* A marker that was set is cleared by an accepted finishRememberConversation
\* of its agent and by nothing else; a rejected completion and an accepted
\* finishDoSomething change no marker.
ClearedByRememberOnly(i) ==
  /\ \A x \in DOMAIN agents :
       (agents[x].toRemember # Undefined /\ agents'[x].toRemember = Undefined)
         => i.name = "finishRememberConversation" /\ i.accepted /\ i.agentId = x
  /\ ~i.accepted => MarkersKept
  /\ (i.name = "finishDoSomething" /\ i.accepted) => MarkersKept

HumanCounterpartOneDirection ==
  [][\A a \in DOMAIN calls :
       (/\ calls'[a].fn = "startConversationMessage"
        /\ calls'[a] # calls[a]
        /\ players[calls'[a].otherPlayerId].human) =>
         LET own == ConversationTableId(players[calls'[a].playerId].name,
                                        players[calls'[a].otherPlayerId].name)
             other == ConversationTableId(players[calls'[a].otherPlayerId].name,
                                          players[calls'[a].playerId].name)
             list == agents[a].conversationList
         IN /\ calls'[a].provisioned = {own}
            /\ DOMAIN tables' \ DOMAIN tables \subseteq {own}
            /\ other \notin DOMAIN tables'
            /\ \A x \in DOMAIN agents \ {a} : agents'[x] = agents[x]
            /\ calls[a].fn # "startConversationMessage"
                 => /\ own \in DOMAIN tables'
                    /\ agents'[a].conversationList =
                         IF Some(list, own) THEN list ELSE Append(list, UsageRecord(own))]_vars

\* An agent has opened a conversation with the human player: the transcript
\* A-B alone exists, and the record of key A-B is in the initiator's list and
\* in no other.
OpenedWithHuman ==
  \E a \in DOMAIN calls :
    /\ At(a, "startConversationMessage", "updateTokens")
    /\ players[calls[a].otherPlayerId].human
    /\ calls[a].provisioned = {OwnKey(a)}
    /\ OwnKey(a) \in DOMAIN tables
    /\ OtherKey(a) \notin DOMAIN tables
    /\ Some(agents[a].conversationList, OwnKey(a))
    /\ \A x \in DOMAIN agents \ {a} :
         /\ ~Some(agents[x].conversationList, OwnKey(a))
         /\ ~Some(agents[x].conversationList, OtherKey(a))

=============================================================================
